---- MODULE Spec2Model ----
(***************************************************************************)
(* IBM PC keyboard converter (converter/ibmpc_usb): the lifecycle state    *)
(* machine of matrix_scan, the Scan Code Set 2 decoder process_cs2 and the *)
(* bit-packed key matrix they maintain.                                    *)
(*                                                                         *)
(* The target is AVR (avr/pgmspace.h): int is 16 bits wide, so the         *)
(* comparison of the uint16_t code with -1 in process_cs2 is a comparison  *)
(* of two 16-bit unsigned values.                                          *)
(***************************************************************************)
EXTENDS Integers, Sequences, FiniteSets, TLC

VARIABLES
    state,            \* matrix_scan: static lifecycle state
    cs2_state,        \* process_cs2: static decoder state
    matrix,           \* matrix[MATRIX_ROWS], one byte per row
    keyboard_kind,    \* NONE, PC_XT, PC_AT, PC_TERMINAL, OTHER
    keyboard_id,      \* 16-bit keyboard ID
    ibmpc_protocol,   \* protocol selected in the transport
    ibmpc_error,      \* transport error flag, a set of error bits
    elapsed,          \* timer_elapsed(last_time), in ms
    code,             \* process_cs2: code read by the last call (uint16_t)
    ret,              \* value process_cs2 returned to the last matrix_scan (0 if not called)
    cleared,          \* clear_keyboard() calls made by the last matrix_scan
    last_op,          \* the operation that produced the current state
    fed,              \* history: codes decoded so far along a documented sequence
    m0,               \* history: the matrix when the sequence in fed started
    nscan,            \* number of matrix_scan calls counted against MaxScan
    err_seen,         \* ibmpc_error as the last matrix_scan found (and logged) it
    id_rx,            \* values the transport returned to the last read_keyboard_id
    sent,             \* bytes the last read_keyboard_id passed to ibmpc_host_send
    args,             \* arguments of the last call of a function of the host interface
    result,           \* value that call returned
    recvd,            \* what ibmpc_host_recv returned to the last operation, <<>> if not called
    led_out,          \* the masks the last operation passed to ibmpc_host_set_led
    run,              \* codes the decoder consumed since it was last in INIT
    pc,               \* position inside a matrix_scan call in progress, "idle" between calls
    waited            \* read_wait: timer_elapsed(start), in ms

vars == <<state, cs2_state, matrix, keyboard_kind, keyboard_id, ibmpc_protocol,
          ibmpc_error, elapsed, code, ret, cleared, last_op, fed, m0, nscan,
          err_seen, id_rx, sent, args, result, recvd, led_out, run,
          pc, waited>>

---------------------------------------------------------------------------
(* Bounds of the model. *)

\* granularity of the timer as seen by matrix_scan, in ms
TickMs == 500

\* matrix_scan calls explored from each initial state of SpecAll
MaxScan == 1

---------------------------------------------------------------------------
(* Program constants. *)

MATRIX_ROWS == 32
MATRIX_COLS == 8

F7 == \h83
PRINT_SCREEN == \hFC
PAUSE == \hFE

\* startup delay of WAIT_STARTUP, in ms
STARTUP_MS == 1000

\* 2^16: width of uint16_t and of the AVR int
U16 == 65536

Rows == 0 .. (MATRIX_ROWS - 1)
Cols == 0 .. (MATRIX_COLS - 1)
Byte == 0 .. 255

---------------------------------------------------------------------------
(* Integer operations of C on 8/16-bit operands. *)

RECURSIVE BitAnd(_, _)
BitAnd(a, b) ==
    IF a = 0 \/ b = 0 THEN 0
    ELSE (a % 2) * (b % 2) + 2 * BitAnd(a \div 2, b \div 2)

RECURSIVE BitOr(_, _)
BitOr(a, b) ==
    IF a = 0 THEN b
    ELSE IF b = 0 THEN a
    ELSE (IF a % 2 = 1 \/ b % 2 = 1 THEN 1 ELSE 0) + 2 * BitOr(a \div 2, b \div 2)

Shl(a, n) == a * 2^n

\* ~x truncated to the 8 bits stored in a matrix row
BitNot8(x) == 255 - x

\* conversion of an int16_t to uint16_t
ToU16(x) == x % U16

\* code>>3
ROW(c) == c \div 8

\* code&0x07
COL(c) == c % 8

---------------------------------------------------------------------------
(* Matrix primitives. *)

EmptyMatrix == [r \in Rows |-> 0]

\* matrix[row] & (1<<col): bit col of the row
matrix_is_on(m, row, col) == (m[row] \div Shl(1, col)) % 2 # 0

matrix_get_row(m, row) == m[row]

\* matrix_make assigning the bit to the row instead of or-ing it in
matrix_make_assign(m, c) ==
    IF ~matrix_is_on(m, ROW(c), COL(c))
    THEN [m EXCEPT ![ROW(c)] = Shl(1, COL(c))]
    ELSE m

matrix_make(m, c) ==
    IF ~matrix_is_on(m, ROW(c), COL(c))
    THEN [m EXCEPT ![ROW(c)] = BitOr(@, Shl(1, COL(c)))]
    ELSE m

matrix_break(m, c) ==
    IF matrix_is_on(m, ROW(c), COL(c))
    THEN [m EXCEPT ![ROW(c)] = BitAnd(@, BitNot8(Shl(1, COL(c))))]
    ELSE m

\* matrix_clear over the first 16 rows only
matrix_clear_low(m) == [r \in Rows |-> IF r < 16 THEN 0 ELSE m[r]]

matrix_clear(m) == [r \in Rows |-> 0]

\* bitpop: the number of bits set in a byte
bitpop(b) ==
    LET RECURSIVE pop(_)
        pop(x) == IF x = 0 THEN 0 ELSE (x % 2) + pop(x \div 2)
    IN  pop(b)

\* the uint8_t count of matrix_key_count after the first n rows
RECURSIVE count_rows(_, _)
count_rows(m, n) ==
    IF n = 0 THEN 0
    ELSE (count_rows(m, n - 1) + bitpop(m[n - 1])) % 256

\* matrix_key_count looping over the first 16 rows only
matrix_key_count_low(m) == count_rows(m, 16)

matrix_key_count(m) == count_rows(m, MATRIX_ROWS)

\* the cell addressed by code c is set
IsOn(m, c) == matrix_is_on(m, ROW(c), COL(c))

\* the set of cells set in m
Cells(m) == {c \in Byte : IsOn(m, c)}

---------------------------------------------------------------------------
(* process_cs2: the Scan Code Set 2 decoder.                               *)
(* Each case of its switch is an operator from the matrix and the code     *)
(* read to the new matrix, the new decoder state, the value returned and   *)
(* the number of clear_keyboard() calls.                                   *)

CS2States == {"INIT", "F0", "E0", "E0_F0",
              "E1", "E1_14", "E1_14_77", "E1_14_77_E1", "E1_14_77_E1_F0",
              "E1_14_77_E1_F0_14", "E1_14_77_E1_F0_14_F0",
              "E0_7E", "E0_7E_E0", "E0_7E_E0_F0"}

Out(m, st, r, k) == [matrix |-> m, state |-> st, ret |-> r, clr |-> k]

\* pseudo_break without the hack: Pause stays on until a break comes
pseudo_break_never(m) == m

\* 'pseudo break code' hack at the entry of process_cs2
pseudo_break(m) ==
    IF matrix_is_on(m, ROW(PAUSE), COL(PAUSE)) THEN matrix_break(m, PAUSE) ELSE m

\* cs2_INIT with Alt'd PrintScreen (84) kept on a cell of its own
cs2_INIT_84(m, c) ==
    CASE c = \hE0 -> Out(m, "E0", 0, 0)
      [] c = \hF0 -> Out(m, "F0", 0, 0)
      [] c = \hE1 -> Out(m, "E1", 0, 0)
      [] c = \h83 -> Out(matrix_make(m, F7), "INIT", 0, 0)
      [] c = \h84 -> Out(matrix_make(m, \h84), "INIT", 0, 0)
      [] c = \h00 -> Out(matrix_clear(m), "INIT", 0, 1)
      [] c \in {\hAA, \hFC} -> Out(m, "INIT", -1, 0)
      [] OTHER ->
            IF c < \h80
            THEN Out(matrix_make(m, c), "INIT", 0, 0)
            ELSE Out(matrix_clear(m), "INIT", 0, 1)

\* cs2_INIT answering the failed self-test (FC) like any other code
cs2_INIT_pass_only(m, c) ==
    CASE c = \hE0 -> Out(m, "E0", 0, 0)
      [] c = \hF0 -> Out(m, "F0", 0, 0)
      [] c = \hE1 -> Out(m, "E1", 0, 0)
      [] c = \h83 -> Out(matrix_make(m, F7), "INIT", 0, 0)
      [] c = \h84 -> Out(matrix_make(m, PRINT_SCREEN), "INIT", 0, 0)
      [] c = \h00 -> Out(matrix_clear(m), "INIT", 0, 1)
      [] c = \hAA -> Out(m, "INIT", -1, 0)
      [] OTHER ->
            IF c < \h80
            THEN Out(matrix_make(m, c), "INIT", 0, 0)
            ELSE Out(matrix_clear(m), "INIT", 0, 1)

cs2_INIT(m, c) ==
    CASE c = \hE0 -> Out(m, "E0", 0, 0)
      [] c = \hF0 -> Out(m, "F0", 0, 0)
      [] c = \hE1 -> Out(m, "E1", 0, 0)
      [] c = \h83 -> Out(matrix_make(m, F7), "INIT", 0, 0)
      [] c = \h84 -> Out(matrix_make(m, PRINT_SCREEN), "INIT", 0, 0)
      [] c = \h00 -> Out(matrix_clear(m), "INIT", 0, 1)
      [] c \in {\hAA, \hFC} -> Out(m, "INIT", -1, 0)
      [] OTHER ->
            IF c < \h80
            THEN Out(matrix_make(m, c), "INIT", 0, 0)
            ELSE Out(matrix_clear(m), "INIT", 0, 1)

\* cs2_E0 without the cases of the shifts to be ignored
cs2_E0_shift(m, c) ==
    CASE c = \h7E -> Out(m, "E0_7E", 0, 0)
      [] c = \hF0 -> Out(m, "E0_F0", 0, 0)
      [] OTHER ->
            IF c < \h80
            THEN Out(matrix_make(m, BitOr(c, \h80)), "INIT", 0, 0)
            ELSE Out(matrix_clear(m), "INIT", 0, 1)

\* cs2_E0 making the code without the E0 bit
cs2_E0_plain(m, c) ==
    CASE c \in {\h12, \h59} -> Out(m, "INIT", 0, 0)
      [] c = \h7E -> Out(m, "E0_7E", 0, 0)
      [] c = \hF0 -> Out(m, "E0_F0", 0, 0)
      [] OTHER ->
            IF c < \h80
            THEN Out(matrix_make(m, c), "INIT", 0, 0)
            ELSE Out(matrix_clear(m), "INIT", 0, 1)

\* cs2_E0 without the case of Control-Pause: 7E is made like any other code
cs2_E0_no_7E(m, c) ==
    CASE c \in {\h12, \h59} -> Out(m, "INIT", 0, 0)
      [] c = \hF0 -> Out(m, "E0_F0", 0, 0)
      [] OTHER ->
            IF c < \h80
            THEN Out(matrix_make(m, BitOr(c, \h80)), "INIT", 0, 0)
            ELSE Out(matrix_clear(m), "INIT", 0, 1)

cs2_E0(m, c) ==
    CASE c \in {\h12, \h59} -> Out(m, "INIT", 0, 0)
      [] c = \h7E -> Out(m, "E0_7E", 0, 0)
      [] c = \hF0 -> Out(m, "E0_F0", 0, 0)
      [] OTHER ->
            IF c < \h80
            THEN Out(matrix_make(m, BitOr(c, \h80)), "INIT", 0, 0)
            ELSE Out(matrix_clear(m), "INIT", 0, 1)

\* cs2_F0 dropping a corrupted code without clearing anything
cs2_F0_drop(m, c) ==
    CASE c = \h83 -> Out(matrix_break(m, F7), "INIT", 0, 0)
      [] c = \h84 -> Out(matrix_break(m, PRINT_SCREEN), "INIT", 0, 0)
      [] OTHER ->
            IF c < \h80
            THEN Out(matrix_break(m, c), "INIT", 0, 0)
            ELSE Out(m, "INIT", 0, 0)

cs2_F0(m, c) ==
    CASE c = \h83 -> Out(matrix_break(m, F7), "INIT", 0, 0)
      [] c = \h84 -> Out(matrix_break(m, PRINT_SCREEN), "INIT", 0, 0)
      [] OTHER ->
            IF c < \h80
            THEN Out(matrix_break(m, c), "INIT", 0, 0)
            ELSE Out(matrix_clear(m), "INIT", 0, 1)

\* cs2_E0_F0 without the return to INIT after an ignored shift
cs2_E0_F0_stay(m, c) ==
    CASE c \in {\h12, \h59} -> Out(m, "E0_F0", 0, 0)
      [] OTHER ->
            IF c < \h80
            THEN Out(matrix_break(m, BitOr(c, \h80)), "INIT", 0, 0)
            ELSE Out(matrix_clear(m), "INIT", 0, 1)

cs2_E0_F0(m, c) ==
    CASE c \in {\h12, \h59} -> Out(m, "INIT", 0, 0)
      [] OTHER ->
            IF c < \h80
            THEN Out(matrix_break(m, BitOr(c, \h80)), "INIT", 0, 0)
            ELSE Out(matrix_clear(m), "INIT", 0, 1)

\* cs2_Pause decoding a code that does not continue the sequence as the
\* first code of a new one
cs2_Pause_resync(m, st, c) ==
    CASE st = "E1" ->
            IF c = \h14 THEN Out(m, "E1_14", 0, 0) ELSE cs2_INIT(m, c)
      [] st = "E1_14" ->
            IF c = \h77 THEN Out(m, "E1_14_77", 0, 0) ELSE cs2_INIT(m, c)
      [] st = "E1_14_77" ->
            IF c = \hE1 THEN Out(m, "E1_14_77_E1", 0, 0) ELSE cs2_INIT(m, c)
      [] st = "E1_14_77_E1" ->
            IF c = \hF0 THEN Out(m, "E1_14_77_E1_F0", 0, 0) ELSE cs2_INIT(m, c)
      [] st = "E1_14_77_E1_F0" ->
            IF c = \h14 THEN Out(m, "E1_14_77_E1_F0_14", 0, 0) ELSE cs2_INIT(m, c)
      [] st = "E1_14_77_E1_F0_14" ->
            IF c = \hF0 THEN Out(m, "E1_14_77_E1_F0_14_F0", 0, 0) ELSE cs2_INIT(m, c)
      [] st = "E1_14_77_E1_F0_14_F0" ->
            IF c = \h77 THEN Out(matrix_make(m, PAUSE), "INIT", 0, 0)
            ELSE cs2_INIT(m, c)

\* cs2_Pause with Pause divided into E1 14 77 (make) and E1 F0 14 F0 77
cs2_Pause_divided(m, st, c) ==
    CASE st = "E1" ->
            IF c = \h14 THEN Out(m, "E1_14", 0, 0) ELSE Out(m, "INIT", 0, 0)
      [] st = "E1_14" ->
            IF c = \h77 THEN Out(matrix_make(m, PAUSE), "E1_14_77", 0, 0)
            ELSE Out(m, "INIT", 0, 0)
      [] st = "E1_14_77" ->
            IF c = \hE1 THEN Out(m, "E1_14_77_E1", 0, 0) ELSE Out(m, "INIT", 0, 0)
      [] st = "E1_14_77_E1" ->
            IF c = \hF0 THEN Out(m, "E1_14_77_E1_F0", 0, 0) ELSE Out(m, "INIT", 0, 0)
      [] st = "E1_14_77_E1_F0" ->
            IF c = \h14 THEN Out(m, "E1_14_77_E1_F0_14", 0, 0) ELSE Out(m, "INIT", 0, 0)
      [] st = "E1_14_77_E1_F0_14" ->
            IF c = \hF0 THEN Out(m, "E1_14_77_E1_F0_14_F0", 0, 0) ELSE Out(m, "INIT", 0, 0)
      [] st = "E1_14_77_E1_F0_14_F0" ->
            IF c = \h77 THEN Out(matrix_break(m, PAUSE), "INIT", 0, 0)
            ELSE Out(m, "INIT", 0, 0)

\* states of Pause: E1 14 77 E1 F0 14 F0 77
cs2_Pause(m, st, c) ==
    CASE st = "E1" ->
            IF c = \h14 THEN Out(m, "E1_14", 0, 0) ELSE Out(m, "INIT", 0, 0)
      [] st = "E1_14" ->
            IF c = \h77 THEN Out(m, "E1_14_77", 0, 0) ELSE Out(m, "INIT", 0, 0)
      [] st = "E1_14_77" ->
            IF c = \hE1 THEN Out(m, "E1_14_77_E1", 0, 0) ELSE Out(m, "INIT", 0, 0)
      [] st = "E1_14_77_E1" ->
            IF c = \hF0 THEN Out(m, "E1_14_77_E1_F0", 0, 0) ELSE Out(m, "INIT", 0, 0)
      [] st = "E1_14_77_E1_F0" ->
            IF c = \h14 THEN Out(m, "E1_14_77_E1_F0_14", 0, 0) ELSE Out(m, "INIT", 0, 0)
      [] st = "E1_14_77_E1_F0_14" ->
            IF c = \hF0 THEN Out(m, "E1_14_77_E1_F0_14_F0", 0, 0) ELSE Out(m, "INIT", 0, 0)
      [] st = "E1_14_77_E1_F0_14_F0" ->
            IF c = \h77 THEN Out(matrix_make(m, PAUSE), "INIT", 0, 0)
            ELSE Out(m, "INIT", 0, 0)

\* cs2_CtrlPause making Pause on whatever code ends the sequence
cs2_CtrlPause_any(m, st, c) ==
    CASE st = "E0_7E" ->
            IF c = \hE0 THEN Out(m, "E0_7E_E0", 0, 0) ELSE Out(m, "INIT", 0, 0)
      [] st = "E0_7E_E0" ->
            IF c = \hF0 THEN Out(m, "E0_7E_E0_F0", 0, 0) ELSE Out(m, "INIT", 0, 0)
      [] st = "E0_7E_E0_F0" -> Out(matrix_make(m, PAUSE), "INIT", 0, 0)

\* states of Control'd Pause: E0 7E E0 F0 7E
cs2_CtrlPause(m, st, c) ==
    CASE st = "E0_7E" ->
            IF c = \hE0 THEN Out(m, "E0_7E_E0", 0, 0) ELSE Out(m, "INIT", 0, 0)
      [] st = "E0_7E_E0" ->
            IF c = \hF0 THEN Out(m, "E0_7E_E0_F0", 0, 0) ELSE Out(m, "INIT", 0, 0)
      [] st = "E0_7E_E0_F0" ->
            IF c = \h7E THEN Out(matrix_make(m, PAUSE), "INIT", 0, 0)
            ELSE Out(m, "INIT", 0, 0)

\* the switch on the decoder state
cs2_switch(m, st, c) ==
    CASE st = "INIT" -> cs2_INIT(m, c)
      [] st = "E0" -> cs2_E0(m, c)
      [] st = "F0" -> cs2_F0(m, c)
      [] st = "E0_F0" -> cs2_E0_F0(m, c)
      [] st \in {"E1", "E1_14", "E1_14_77", "E1_14_77_E1", "E1_14_77_E1_F0",
                 "E1_14_77_E1_F0_14", "E1_14_77_E1_F0_14_F0"} -> cs2_Pause(m, st, c)
      [] st \in {"E0_7E", "E0_7E_E0", "E0_7E_E0_F0"} -> cs2_CtrlPause(m, st, c)
      [] OTHER -> Out(m, "INIT", 0, 0)

\* process_cs2 with rx the value ibmpc_host_recv() returns (-1: no byte)
process_cs2(m, st, rx) ==
    LET m1 == pseudo_break(m)
        c  == ToU16(rx)
    IN  IF c = ToU16(-1)
        THEN Out(m1, st, 0, 0)
        ELSE cs2_switch(m1, st, c)

---------------------------------------------------------------------------
(* Keyboard identification. *)

KeyboardKinds == {"NONE", "PC_XT", "PC_AT", "PC_TERMINAL", "OTHER"}

LifecycleStates == {"INIT", "WAIT_STARTUP", "READ_ID", "LED_SET", "LOOP", "END"}

\* values ibmpc_host_send(0xF2) may return: -1 (no ACK), ACK, anything else
F2Replies == {-1, \hFA, \hFE}

\* values of the two read_wait(1000) calls: -1 on timeout, else an ID byte
IdByte1 == {-1, \hAB, \hBF, \h00, \hFF}
IdByte2 == {-1, \h83, \hBF, \hFF}

\* read_keyboard_id with the replies of the keyboard as arguments
read_keyboard_id(f2, b1, b2) ==
    IF f2 = -1 THEN \hFFFF
    ELSE IF f2 # \hFA THEN \hFFFE
    ELSE IF b1 = -1 THEN \h0000
    ELSE BitOr(Shl(BitAnd(ToU16(b1), \hFF), 8) % U16, BitAnd(ToU16(b2), \hFF))

\* the values the calls of read_keyboard_id returned, in order: that of
\* ibmpc_host_send(0xF2), then those of the read_wait(1000) calls made
rx_of_read_keyboard_id(f2, b1, b2) ==
    IF f2 # \hFA THEN <<f2>>
    ELSE IF b1 = -1 THEN <<f2, b1>>
    ELSE <<f2, b1, b2>>

\* the bytes read_keyboard_id passes to ibmpc_host_send, in order
sent_by_read_keyboard_id(f2, b1, b2) ==
    IF f2 # \hFA \/ b1 = -1 THEN <<\hF5, \hF2>>
    ELSE <<\hF5, \hF2, \hF4>>

\* the classification of READ_ID
kind_of_id(id) ==
    IF BitAnd(id, \hFF00) = \hAB00 THEN "PC_AT"
    ELSE IF BitAnd(id, \hFF00) = \hBF00 THEN "PC_TERMINAL"
    ELSE IF id = \h0000 THEN "PC_AT"
    ELSE IF id = \hFFFF THEN "PC_XT"
    ELSE IF id = \hFFFE THEN "PC_AT"
    ELSE IF id = \h00FF THEN "NONE"
    ELSE "PC_AT"

protocol_of_kind(kind) ==
    IF kind = "PC_XT" THEN "XT" ELSE "AT"

---------------------------------------------------------------------------
(* Transport errors.  ibmpc_error is a bit mask; the code tests only the   *)
(* IBMPC_ERR_SEND and IBMPC_ERR_FULL bits, every other bit is a receive    *)
(* error ("RECV").                                                         *)

IBMPC_ERR_NONE == {}

ErrorValues == {{"RECV"}, {"SEND"}, {"FULL"}, {"RECV", "SEND"}}

\* is_recv_error with the test of the send and buffer-full bits inverted
is_recv_error_inverted(err) ==
    err # IBMPC_ERR_NONE /\ err \cap {"SEND", "FULL"} # {}

\* is_recv_error without the test of the IBMPC_ERR_FULL bit
is_recv_error_send_only(err) ==
    err # IBMPC_ERR_NONE /\ "SEND" \notin err

\* the test of matrix_scan: a receive error, neither send error nor buffer full
is_recv_error(err) ==
    err # IBMPC_ERR_NONE /\ err \cap {"SEND", "FULL"} = {}

---------------------------------------------------------------------------
(* History of the decoded stream along the documented sequences. *)

PauseSeq == <<\hE1, \h14, \h77, \hE1, \hF0, \h14, \hF0, \h77>>
CtrlPauseSeq == <<\hE0, \h7E, \hE0, \hF0, \h7E>>
PrtScSeq == <<\hE0, \h12, \hE0, \h7C, \hE0, \hF0, \h7C, \hE0, \hF0, \h12>>
AltPrtScSeq == <<\h84, \hF0, \h84>>
PrtScAltBreakSeq == <<\hE0, \h7C, \hF0, \h84>>
AltPrtScBreakSeq == <<\h84, \hE0, \hF0, \h7C>>

Scenarios == {PauseSeq, CtrlPauseSeq, PrtScSeq, AltPrtScSeq, PrtScAltBreakSeq,
              AltPrtScBreakSeq,
              <<\hE0, \h12>>, <<\hE0, \h59>>, <<\hE0, \hF0, \h12>>, <<\hE0, \hF0, \h59>>}

IsPrefix(s, t) == Len(s) <= Len(t) /\ SubSeq(t, 1, Len(s)) = s

OnTrack(s) == \E t \in Scenarios : IsPrefix(s, t)

\* fed after process_cs2, entered in decoder state st, has read code c
NextFed(f, st, c) ==
    IF f # <<>> /\ OnTrack(Append(f, c)) THEN Append(f, c)
    ELSE IF st = "INIT" /\ OnTrack(<<c>>) THEN <<c>>
    ELSE <<>>

\* m0 after the same call, entered with matrix m
NextM0(f, base, st, c, m) ==
    IF f # <<>> /\ OnTrack(Append(f, c)) THEN base
    ELSE IF st = "INIT" /\ OnTrack(<<c>>) THEN m
    ELSE EmptyMatrix

---------------------------------------------------------------------------
(* Translation table of Scan Code Set 2: matrix cell to universal key      *)
(* position, by name.                                                      *)

unimap_cs2 == <<
       <<"UNIMAP_NO", "UNIMAP_F9", "UNIMAP_NO", "UNIMAP_F5", "UNIMAP_F3", "UNIMAP_F1", "UNIMAP_F2", "UNIMAP_F12">>,
       <<"UNIMAP_F13", "UNIMAP_F10", "UNIMAP_F8", "UNIMAP_F6", "UNIMAP_F4", "UNIMAP_TAB", "UNIMAP_GRV", "UNIMAP_NO">>,
       <<"UNIMAP_F14", "UNIMAP_LALT", "UNIMAP_LSHIFT", "UNIMAP_KANA", "UNIMAP_LCTL", "UNIMAP_Q", "UNIMAP_1", "UNIMAP_NO">>,
       <<"UNIMAP_F15", "UNIMAP_NO", "UNIMAP_Z", "UNIMAP_S", "UNIMAP_A", "UNIMAP_W", "UNIMAP_2", "UNIMAP_NO">>,
       <<"UNIMAP_F16", "UNIMAP_C", "UNIMAP_X", "UNIMAP_D", "UNIMAP_E", "UNIMAP_4", "UNIMAP_3", "UNIMAP_NO">>,
       <<"UNIMAP_F17", "UNIMAP_SPACE", "UNIMAP_V", "UNIMAP_F", "UNIMAP_T", "UNIMAP_R", "UNIMAP_5", "UNIMAP_NO">>,
       <<"UNIMAP_F18", "UNIMAP_N", "UNIMAP_B", "UNIMAP_H", "UNIMAP_G", "UNIMAP_Y", "UNIMAP_6", "UNIMAP_NO">>,
       <<"UNIMAP_F19", "UNIMAP_NO", "UNIMAP_M", "UNIMAP_J", "UNIMAP_U", "UNIMAP_7", "UNIMAP_8", "UNIMAP_NO">>,
       <<"UNIMAP_F20", "UNIMAP_COMMA", "UNIMAP_K", "UNIMAP_I", "UNIMAP_O", "UNIMAP_0", "UNIMAP_9", "UNIMAP_NO">>,
       <<"UNIMAP_F21", "UNIMAP_DOT", "UNIMAP_SLASH", "UNIMAP_L", "UNIMAP_SCOLON", "UNIMAP_P", "UNIMAP_MINUS", "UNIMAP_NO">>,
       <<"UNIMAP_F22", "UNIMAP_RO", "UNIMAP_QUOTE", "UNIMAP_NO", "UNIMAP_LBRC", "UNIMAP_EQUAL", "UNIMAP_NO", "UNIMAP_F23">>,
       <<"UNIMAP_CAPS", "UNIMAP_RSHIFT", "UNIMAP_ENTER", "UNIMAP_RBRC", "UNIMAP_NO", "UNIMAP_BSLASH", "UNIMAP_NO", "UNIMAP_F24">>,
       <<"UNIMAP_NO", "UNIMAP_NUBS", "UNIMAP_NO", "UNIMAP_PEQL", "UNIMAP_HENK", "UNIMAP_NO", "UNIMAP_BSPACE", "UNIMAP_MHEN">>,
       <<"UNIMAP_NUHS", "UNIMAP_P1", "UNIMAP_JYEN", "UNIMAP_P4", "UNIMAP_P7", "UNIMAP_PCMM", "UNIMAP_NO", "UNIMAP_NO">>,
       <<"UNIMAP_P0", "UNIMAP_PDOT", "UNIMAP_P2", "UNIMAP_P5", "UNIMAP_P6", "UNIMAP_P8", "UNIMAP_ESC", "UNIMAP_NLCK">>,
       <<"UNIMAP_F11", "UNIMAP_PPLS", "UNIMAP_P3", "UNIMAP_PMNS", "UNIMAP_PAST", "UNIMAP_P9", "UNIMAP_SLCK", "UNIMAP_NO">>,
       <<"UNIMAP_NO", "UNIMAP_NO", "UNIMAP_NO", "UNIMAP_F7", "UNIMAP_NO", "UNIMAP_NO", "UNIMAP_NO", "UNIMAP_NO">>,
       <<"UNIMAP_NO", "UNIMAP_NO", "UNIMAP_NO", "UNIMAP_NO", "UNIMAP_NO", "UNIMAP_NO", "UNIMAP_NO", "UNIMAP_NO">>,
       <<"UNIMAP_NO", "UNIMAP_RALT", "UNIMAP_NO", "UNIMAP_NO", "UNIMAP_RCTRL", "UNIMAP_NO", "UNIMAP_NO", "UNIMAP_NO">>,
       <<"UNIMAP_NO", "UNIMAP_NO", "UNIMAP_NO", "UNIMAP_NO", "UNIMAP_NO", "UNIMAP_NO", "UNIMAP_NO", "UNIMAP_LGUI">>,
       <<"UNIMAP_NO", "UNIMAP_VOLD", "UNIMAP_NO", "UNIMAP_MUTE", "UNIMAP_NO", "UNIMAP_NO", "UNIMAP_NO", "UNIMAP_RGUI">>,
       <<"UNIMAP_NO", "UNIMAP_NO", "UNIMAP_NO", "UNIMAP_NO", "UNIMAP_NO", "UNIMAP_NO", "UNIMAP_NO", "UNIMAP_APP">>,
       <<"UNIMAP_NO", "UNIMAP_NO", "UNIMAP_VOLU", "UNIMAP_NO", "UNIMAP_NO", "UNIMAP_NO", "UNIMAP_NO", "UNIMAP_NO">>,
       <<"UNIMAP_NO", "UNIMAP_NO", "UNIMAP_NO", "UNIMAP_NO", "UNIMAP_NO", "UNIMAP_NO", "UNIMAP_NO", "UNIMAP_NO">>,
       <<"UNIMAP_NO", "UNIMAP_NO", "UNIMAP_NO", "UNIMAP_NO", "UNIMAP_NO", "UNIMAP_NO", "UNIMAP_NO", "UNIMAP_NO">>,
       <<"UNIMAP_NO", "UNIMAP_NO", "UNIMAP_PSLS", "UNIMAP_NO", "UNIMAP_NO", "UNIMAP_NO", "UNIMAP_NO", "UNIMAP_NO">>,
       <<"UNIMAP_NO", "UNIMAP_NO", "UNIMAP_NO", "UNIMAP_NO", "UNIMAP_NO", "UNIMAP_NO", "UNIMAP_NO", "UNIMAP_NO">>,
       <<"UNIMAP_NO", "UNIMAP_NO", "UNIMAP_PENT", "UNIMAP_NO", "UNIMAP_NO", "UNIMAP_NO", "UNIMAP_NO", "UNIMAP_NO">>,
       <<"UNIMAP_NO", "UNIMAP_NO", "UNIMAP_NO", "UNIMAP_NO", "UNIMAP_NO", "UNIMAP_NO", "UNIMAP_NO", "UNIMAP_NO">>,
       <<"UNIMAP_NO", "UNIMAP_END", "UNIMAP_NO", "UNIMAP_LEFT", "UNIMAP_HOME", "UNIMAP_NO", "UNIMAP_NO", "UNIMAP_NO">>,
       <<"UNIMAP_INS", "UNIMAP_DEL", "UNIMAP_DOWN", "UNIMAP_NO", "UNIMAP_RIGHT", "UNIMAP_UP", "UNIMAP_NO", "UNIMAP_NO">>,
       <<"UNIMAP_NO", "UNIMAP_NO", "UNIMAP_PGDOWN", "UNIMAP_NO", "UNIMAP_PSCR", "UNIMAP_PGUP", "UNIMAP_PAUSE", "UNIMAP_NO">>
    >>

\* the entry of unimap_cs2 for the cell addressed by code c
unimap_cs2_at(c) == unimap_cs2[ROW(c) + 1][COL(c) + 1]

---------------------------------------------------------------------------
(* matrix_scan. *)

\* codes the attached keyboard sends in Spec: a key, the prefixes, the
\* self-test results, overrun
Bytes == {\h1C, \hE0, \hF0, \hAA, \hFC, \h00}

\* codes the attached keyboard sends in SpecSeq: those of the documented
\* sequences of Pause, PrintScreen and the shifts
SeqBytes == {\hE0, \hE1, \hF0, \h12, \h14, \h59, \h77, \h7C, \h7E, \h84}

\* values of host_keyboard_leds() and of the argument of led_set: masks
\* over the LEDs of the keyboard and two more, Compose and Kana
HostLeds == {{}, {"NUM_LOCK"}, {"CAPS_LOCK", "SCROLL_LOCK", "KANA"},
             {"NUM_LOCK", "CAPS_LOCK", "SCROLL_LOCK", "COMPOSE"}}

\* led_set translating the host mask for every family
led_set_any(kind, usb_led) ==
    LET l1 == IF "SCROLL_LOCK" \in usb_led THEN {"SCROLL_LOCK"} ELSE {}
        l2 == IF "NUM_LOCK" \in usb_led THEN l1 \cup {"NUM_LOCK"} ELSE l1
        l3 == IF "CAPS_LOCK" \in usb_led THEN l2 \cup {"CAPS_LOCK"} ELSE l2
    IN  <<l3>>

\* led_set: the masks it passes to ibmpc_host_set_led
led_set(kind, usb_led) ==
    IF kind # "PC_AT" THEN <<>>
    ELSE LET l1 == IF "SCROLL_LOCK" \in usb_led THEN {"SCROLL_LOCK"} ELSE {}
             l2 == IF "NUM_LOCK" \in usb_led THEN l1 \cup {"NUM_LOCK"} ELSE l1
             l3 == IF "CAPS_LOCK" \in usb_led THEN l2 \cup {"CAPS_LOCK"} ELSE l2
         IN  <<l3>>

\* the bound of the counter run
MaxRun == 9

\* the part of matrix_scan that does not call process_cs2
NoDecode ==
    /\ code' = ToU16(-1)
    /\ ret' = 0
    /\ cleared' = 0
    /\ UNCHANGED <<cs2_state, run>>

\* case LOOP with keyboard_kind = PC_AT: process_cs2() is called and its
\* return value is dropped
Decode(rx) ==
    LET out == process_cs2(matrix, cs2_state, rx)
        c   == ToU16(rx)
    IN  /\ matrix' = out.matrix
        /\ cs2_state' = out.state
        /\ ret' = out.ret
        /\ cleared' = out.clr
        /\ code' = c
        /\ recvd' = <<rx>>
        /\ IF c = ToU16(-1)
           THEN UNCHANGED <<fed, m0, run>>
           ELSE /\ fed' = NextFed(fed, cs2_state, c)
                /\ m0' = NextM0(fed, m0, cs2_state, c, matrix)
                /\ run' = IF out.state = "INIT" THEN 0
                           ELSE IF run < MaxRun THEN run + 1 ELSE run

\* state_after_error without the test for LOOP
state_after_error_any(st, err) ==
    IF is_recv_error(err) THEN "INIT" ELSE st

\* the state after the error handling at the entry of matrix_scan
state_after_error(st, err) ==
    IF is_recv_error(err) /\ st = "LOOP" THEN "INIT" ELSE st

\* case LOOP (also reached by falling through from LED_SET)
ScanLoop(B) ==
    /\ state' = "LOOP"
    /\ UNCHANGED <<keyboard_kind, keyboard_id, ibmpc_protocol, elapsed, id_rx, sent>>
    /\ IF keyboard_kind = "PC_AT"
       THEN \E rx \in B \cup {-1} : Decode(rx)
       ELSE NoDecode /\ recvd' = <<>> /\ UNCHANGED <<matrix, fed, m0>>

\* the test of WAIT_STARTUP with the delay taken in seconds
startup_over_s(e) == e > STARTUP_MS * 1000

\* the test of WAIT_STARTUP taken as at least 1000 ms
startup_over_ge(e) == e >= STARTUP_MS

\* the test of WAIT_STARTUP: timer_elapsed(last_time) > 1000
startup_over(e) == e > STARTUP_MS

\* the switch on state that follows the error handling, entered in state st
scan_switch(st, B) ==
    CASE st = "INIT" ->
           /\ ibmpc_protocol' = "AT"
           /\ keyboard_kind' = "NONE"
           /\ keyboard_id' = \h0000
           /\ elapsed' = 0
           /\ state' = "WAIT_STARTUP"
           /\ matrix' = matrix_clear(matrix)
           /\ fed' = <<>>
           /\ m0' = EmptyMatrix
           /\ UNCHANGED <<id_rx, sent>>
           /\ recvd' = <<>>
           /\ led_out' = <<>>
           /\ NoDecode
      [] st = "WAIT_STARTUP" ->
           /\ \E v \in B \cup {-1} : recvd' = <<v>>
           /\ led_out' = <<>>
           /\ state' = IF startup_over(elapsed) THEN "READ_ID" ELSE "WAIT_STARTUP"
           /\ UNCHANGED <<matrix, keyboard_kind, keyboard_id, ibmpc_protocol,
                          elapsed, fed, m0, id_rx, sent>>
           /\ NoDecode
      [] st = "READ_ID" ->
           /\ \E f2 \in F2Replies, b1 \in IdByte1, b2 \in IdByte2 :
                 /\ keyboard_id' = read_keyboard_id(f2, b1, b2)
                 /\ id_rx' = rx_of_read_keyboard_id(f2, b1, b2)
                 /\ sent' = sent_by_read_keyboard_id(f2, b1, b2)
                 /\ keyboard_kind' = kind_of_id(keyboard_id')
                 /\ ibmpc_protocol' = protocol_of_kind(keyboard_kind')
           /\ state' = "LED_SET"
           /\ UNCHANGED <<matrix, elapsed, fed, m0>>
           /\ recvd' = <<>>
           /\ led_out' = <<>>
           /\ NoDecode
      [] st = "LED_SET" ->
           /\ \E usb_led \in HostLeds : led_out' = led_set(keyboard_kind, usb_led)
           /\ ScanLoop(B)
      [] st = "LOOP" ->
           /\ led_out' = <<>>
           /\ ScanLoop(B)
      [] OTHER ->
           /\ UNCHANGED <<state, matrix, keyboard_kind, keyboard_id,
                          ibmpc_protocol, elapsed, fed, m0, id_rx, sent>>
           /\ recvd' = <<>>
           /\ led_out' = <<>>
           /\ NoDecode

matrix_scan(B) ==
    /\ last_op' = "matrix_scan"
    /\ err_seen' = ibmpc_error
    /\ ibmpc_error' = IBMPC_ERR_NONE
    /\ args' = <<>>
    /\ result' = 1
    /\ UNCHANGED <<pc, waited>>
    /\ scan_switch(state_after_error(state, ibmpc_error), B)

---------------------------------------------------------------------------
(* The environment: the timer and the transport's interrupt handler. *)

\* the timer advances while WAIT_STARTUP polls it
TimerTick ==
    /\ state = "WAIT_STARTUP"
    /\ elapsed <= STARTUP_MS
    /\ elapsed' = (elapsed + TickMs) % U16
    /\ last_op' = "timer"
    /\ UNCHANGED <<state, cs2_state, matrix, keyboard_kind, keyboard_id,
                   ibmpc_protocol, ibmpc_error, code, ret, cleared, fed, m0, nscan,
                   err_seen, id_rx, sent, run, pc, waited>>
    /\ args' = <<>>
    /\ result' = 0
    /\ recvd' = <<>>
    /\ led_out' = <<>>

\* the transport reports an error
IbmpcError ==
    /\ \E e \in ErrorValues : ibmpc_error' = e
    /\ last_op' = "ibmpc_error"
    /\ UNCHANGED <<state, cs2_state, matrix, keyboard_kind, keyboard_id,
                   ibmpc_protocol, elapsed, code, ret, cleared, fed, m0, nscan,
                   err_seen, id_rx, sent, run, pc, waited>>
    /\ args' = <<>>
    /\ result' = 0
    /\ recvd' = <<>>
    /\ led_out' = <<>>

---------------------------------------------------------------------------
(* Specifications. *)

\* the state after matrix_init()
Init ==
    /\ state = "INIT"
    /\ cs2_state = "INIT"
    /\ matrix = EmptyMatrix
    /\ keyboard_kind = "NONE"
    /\ keyboard_id = \h0000
    /\ ibmpc_protocol = "AT"
    /\ ibmpc_error = IBMPC_ERR_NONE
    /\ elapsed = 0
    /\ code = ToU16(-1)
    /\ ret = 0
    /\ cleared = 0
    /\ last_op = "matrix_init"
    /\ fed = <<>>
    /\ m0 = EmptyMatrix
    /\ nscan = 0
    /\ err_seen = IBMPC_ERR_NONE
    /\ id_rx = <<>>
    /\ sent = <<>>
    /\ args = <<>>
    /\ result = 0
    /\ recvd = <<>>
    /\ led_out = <<>>
    /\ pc = "idle"
    /\ waited = 0
    /\ run = 0

Scan == matrix_scan(Bytes) /\ UNCHANGED nscan

\* the host calls led_set(usb_led)
CallLedSet ==
    /\ \E usb_led \in HostLeds :
          /\ args' = <<usb_led>>
          /\ led_out' = led_set(keyboard_kind, usb_led)
    /\ last_op' = "led_set"
    /\ result' = 0
    /\ recvd' = <<>>
    /\ UNCHANGED <<state, cs2_state, matrix, keyboard_kind, keyboard_id,
                   ibmpc_protocol, ibmpc_error, elapsed, code, ret, cleared,
                   fed, m0, nscan, err_seen, id_rx, sent, run, pc, waited>>

Next == Scan \/ TimerTick \/ IbmpcError \/ CallLedSet

Spec == Init /\ [][Next]_vars

\* the value of elapsed with which WAIT_STARTUP is left
ExitElapsed == ((STARTUP_MS \div TickMs) + 1) * TickMs

\* an identified PS/2 keyboard (ID AB83) in LOOP, decoder idle, no key held
InitLoop ==
    /\ state = "LOOP"
    /\ keyboard_kind = "PC_AT"
    /\ keyboard_id = \hAB83
    /\ ibmpc_protocol = "AT"
    /\ ibmpc_error = IBMPC_ERR_NONE
    /\ elapsed = ExitElapsed
    /\ code = ToU16(-1)
    /\ ret = 0
    /\ cleared = 0
    /\ last_op = "matrix_scan"
    /\ fed = <<>>
    /\ m0 = EmptyMatrix
    /\ nscan = 0
    /\ err_seen = IBMPC_ERR_NONE
    /\ id_rx = <<\hFA, \hAB, \h83>>
    /\ sent = <<\hF5, \hF2, \hF4>>
    /\ args = <<>>
    /\ result = 1
    /\ recvd = <<-1>>
    /\ led_out = <<>>
    /\ pc = "idle"
    /\ waited = 0

InitSeq ==
    /\ InitLoop
    /\ cs2_state = "INIT"
    /\ run = 0
    /\ matrix = EmptyMatrix

ScanSeq == matrix_scan(SeqBytes) /\ UNCHANGED nscan

NextSeq == ScanSeq

SpecSeq == InitSeq /\ [][NextSeq]_vars

\* a matrix with exactly the cells of S set
MatrixOf(S) == [r \in Rows |-> LET RECURSIVE Sum(_)
                                   Sum(T) == IF T = {} THEN 0
                                             ELSE LET c == CHOOSE x \in T : TRUE
                                                  IN  Shl(1, c) + Sum(T \ {c})
                               IN  Sum({COL(x) : x \in {y \in S : ROW(y) = r}})]

\* the cells process_cs2 never sets: 00 (00 is the overrun code, E0 00 sets
\* 80), 92 and D9 (E0 12 and E0 59 are ignored)
NeverSet == {\h00, \h92, \hD9}

\* every other cell but Pause held: makes of 01..7F, F7 and 84, and E0
\* makes of 00..7F, with no break in between
FullMatrix == MatrixOf((Byte \ NeverSet) \ {PAUSE})

\* matrices SpecAll starts from: nothing held; a letter, the shifts and F7;
\* E0-prefixed keys and PrintScreen; Pause just decoded with Control (14)
\* held, as E0 7E E0 F0 7E leaves it; every cell but Pause held
InitMatrices == {MatrixOf({}), MatrixOf({\h1C, \h12, \h59, F7}),
                 MatrixOf({\hF5, \h94, PRINT_SCREEN}), MatrixOf({\h14, PAUSE}),
                 FullMatrix}

\* any decoder state, with Pause set only where process_cs2 can leave it set
\* the number of codes that lead from INIT to a decoder state
Depth(st) ==
    CASE st = "INIT" -> 0
      [] st \in {"F0", "E0", "E1"} -> 1
      [] st \in {"E0_F0", "E1_14", "E0_7E"} -> 2
      [] st \in {"E1_14_77", "E0_7E_E0"} -> 3
      [] st \in {"E1_14_77_E1", "E0_7E_E0_F0"} -> 4
      [] st = "E1_14_77_E1_F0" -> 5
      [] st = "E1_14_77_E1_F0_14" -> 6
      [] st = "E1_14_77_E1_F0_14_F0" -> 7

InitAll ==
    /\ InitLoop
    /\ cs2_state \in CS2States
    /\ run = Depth(cs2_state)
    /\ matrix \in InitMatrices
    /\ IsOn(matrix, PAUSE) => cs2_state = "INIT"

ScanAll ==
    /\ nscan < MaxScan
    /\ nscan' = nscan + 1
    /\ matrix_scan(Byte)

NextAll == ScanAll

SpecAll == InitAll /\ [][NextAll]_vars

---------------------------------------------------------------------------
(* Properties. *)

\* code when no byte was read
NoByte == ToU16(-1)

\* the step is a matrix_scan call in which process_cs2 read a code
Decoded == last_op' = "matrix_scan" /\ code' # NoByte

\* m and n agree on every cell other than Pause
SameExceptPause(m, n) ==
    /\ \A r \in Rows \ {ROW(PAUSE)} : m[r] = n[r]
    /\ BitAnd(m[ROW(PAUSE)], BitNot8(Shl(1, COL(PAUSE))))
         = BitAnd(n[ROW(PAUSE)], BitNot8(Shl(1, COL(PAUSE))))

(* C1: a self-test code (AA or FC) read by the decoder in INIT, in LOOP    *)
(* with an AT keyboard, forces the lifecycle to re-initialise: the next    *)
(* matrix_scan call at the latest performs the INIT step.                  *)
C1_SelfTestForcesReinit ==
    [][(state = "LOOP" /\ keyboard_kind = "PC_AT" /\ ret = -1
          /\ code \in {\hAA, \hFC} /\ last_op' = "matrix_scan")
       => (/\ state' = "WAIT_STARTUP"
           /\ keyboard_kind' = "NONE"
           /\ keyboard_id' = \h0000
           /\ matrix' = EmptyMatrix)]_vars

(* C2 as stated: a process_cs2 call that reads a code and leaves the       *)
(* decoder in a state other than INIT returns with the matrix it was       *)
(* entered with.                                                           *)
C2_PartialKeepsMatrix_Orig ==
    [][(Decoded /\ cs2_state' # "INIT") => matrix' = matrix]_vars

(* C2 amended: a process_cs2 call that reads a code and leaves the decoder *)
(* in a state other than INIT returns with the matrix it was entered with, *)
(* except that the Pause cell, if set at entry, has been cleared.          *)
C2_PartialKeepsMatrix ==
    [][(Decoded /\ cs2_state' # "INIT")
       => (SameExceptPause(matrix', matrix) /\ ~IsOn(matrix', PAUSE))]_vars

\* a prefix was read while keys were held
C2_Witness ==
    /\ last_op = "matrix_scan"
    /\ cs2_state = "E0_7E_E0"
    /\ code = \hE0
    /\ IsOn(matrix, \h12)
    /\ IsOn(matrix, PRINT_SCREEN)

(* C3: Pause is a one-tick press: a matrix_scan call entered with the      *)
(* Pause cell set leaves it clear, whether or not a byte is read, so Pause *)
(* is never set at the end of two consecutive process_cs2 calls.           *)
C3_PauseOneTick ==
    [][(last_op' = "matrix_scan" /\ IsOn(matrix, PAUSE)) => ~IsOn(matrix', PAUSE)]_vars

\* Pause was decoded, and the next call, which read nothing, released it
C3_Witness ==
    /\ fed = PauseSeq
    /\ last_op = "matrix_scan"
    /\ code = NoByte
    /\ ~IsOn(matrix, PAUSE)
    /\ cs2_state = "INIT"

\* decoder states of the Pause sequence, by the number of codes read
PauseStates == <<"E1", "E1_14", "E1_14_77", "E1_14_77_E1", "E1_14_77_E1_F0",
                 "E1_14_77_E1_F0_14", "E1_14_77_E1_F0_14_F0">>

\* decoder states of the Control'd Pause sequence, by the number of codes read
CtrlPauseStates == <<"E0", "E0_7E", "E0_7E_E0", "E0_7E_E0_F0">>

\* s is a non-empty proper prefix of t
ProperPrefix(s, t) == s # <<>> /\ IsPrefix(s, t) /\ s # t

(* C4: from decoder state INIT the codes E1 14 77 E1 F0 14 F0 77 set the   *)
(* Pause cell on the final 77 and on no earlier code and leave every other *)
(* cell as it was; a code that differs from the expected one takes the     *)
(* decoder to INIT, is consumed, and makes or breaks nothing.              *)
C4_PauseSequence ==
    [][Decoded =>
        /\ (fed' = PauseSeq
              => /\ cs2_state' = "INIT"
                 /\ IsOn(matrix', PAUSE)
                 /\ SameExceptPause(matrix', m0'))
        /\ (ProperPrefix(fed', PauseSeq)
              => /\ cs2_state' = PauseStates[Len(fed')]
                 /\ ~IsOn(matrix', PAUSE)
                 /\ SameExceptPause(matrix', m0'))
        /\ ((ProperPrefix(fed, PauseSeq) /\ code' # PauseSeq[Len(fed) + 1])
              => /\ cs2_state' = "INIT"
                 /\ matrix' = matrix
                 /\ ret' = 0
                 /\ cleared' = 0)]_vars

\* the whole sequence was read while other keys were held
C4_Witness ==
    /\ fed = PauseSeq
    /\ code = \h77
    /\ Cells(m0) = {\h12, \h7C, \hF7}
    /\ Cells(matrix) = {\h12, \h7C, \hF7, PAUSE}

(* C5: from decoder state INIT the codes E0 7E E0 F0 7E set the Pause cell *)
(* on the final 7E and on no earlier code and leave every other cell as it *)
(* was; a code that does not continue the sequence after E0 7E, E0 7E E0   *)
(* or E0 7E E0 F0 takes the decoder to INIT and makes or breaks nothing.   *)
C5_CtrlPauseSequence ==
    [][Decoded =>
        /\ (fed' = CtrlPauseSeq
              => /\ cs2_state' = "INIT"
                 /\ IsOn(matrix', PAUSE)
                 /\ SameExceptPause(matrix', m0'))
        /\ (ProperPrefix(fed', CtrlPauseSeq)
              => /\ cs2_state' = CtrlPauseStates[Len(fed')]
                 /\ ~IsOn(matrix', PAUSE)
                 /\ SameExceptPause(matrix', m0'))
        /\ ((ProperPrefix(fed, CtrlPauseSeq) /\ Len(fed) >= 2
               /\ code' # CtrlPauseSeq[Len(fed) + 1])
              => /\ cs2_state' = "INIT"
                 /\ matrix' = matrix
                 /\ ret' = 0
                 /\ cleared' = 0)]_vars

\* the whole sequence was read while Control and another key were held
C5_Witness ==
    /\ fed = CtrlPauseSeq
    /\ code = \h7E
    /\ Cells(m0) = {\h14, \h7C}
    /\ Cells(matrix) = {\h14, \h7C, PAUSE}

\* the sequences of the shifts to be ignored
ShadowShifts == {<<\hE0, \h12>>, <<\hE0, \h59>>, <<\hE0, \hF0, \h12>>, <<\hE0, \hF0, \h59>>}

(* C6: E0 12, E0 59, E0 F0 12 and E0 F0 59, read from decoder state INIT   *)
(* with a matrix in which Pause is not set, leave every matrix row as it   *)
(* was and the decoder in INIT.                                            *)
C6_ShadowShiftIgnored ==
    (code # NoByte /\ fed \in ShadowShifts /\ ~IsOn(m0, PAUSE))
      => (matrix = m0 /\ cs2_state = "INIT")

\* E0 F0 12 was read while both real shifts were held
C6_Witness ==
    /\ fed = <<\hE0, \hF0, \h12>>
    /\ code = \h12
    /\ Cells(matrix) = {\h12, \h59}

(* C7: the encodings of PrintScreen share cell FC: from an empty matrix    *)
(* and decoder state INIT, E0 12 E0 7C sets only cell FC and               *)
(* E0 F0 7C E0 F0 12 empties the matrix; 84 sets only cell FC and F0 84    *)
(* empties it; E0 7C then F0 84, and 84 then E0 F0 7C, leave it empty.     *)
C7_PrintScreenUnified ==
    (code # NoByte /\ fed # <<>> /\ m0 = EmptyMatrix)
      => /\ fed = SubSeq(PrtScSeq, 1, 4) => Cells(matrix) = {PRINT_SCREEN}
         /\ fed = SubSeq(PrtScSeq, 1, 7) => matrix = EmptyMatrix
         /\ fed = PrtScSeq => matrix = EmptyMatrix
         /\ fed = <<\h84>> => Cells(matrix) = {PRINT_SCREEN}
         /\ fed = AltPrtScSeq => matrix = EmptyMatrix
         /\ fed = <<\hE0, \h7C>> => Cells(matrix) = {PRINT_SCREEN}
         /\ fed = PrtScAltBreakSeq => matrix = EmptyMatrix
         /\ fed = AltPrtScBreakSeq => matrix = EmptyMatrix

\* 84 made PrintScreen and E0 F0 7C released it
C7_Witness ==
    /\ fed = AltPrtScBreakSeq
    /\ code = \h7C
    /\ m0 = EmptyMatrix
    /\ matrix = EmptyMatrix
    /\ cs2_state = "INIT"

\* m with the cell (row, col) set, resp. clear, and every other cell as in m
SetCell(m, row, col) ==
    [m EXCEPT ![row] = IF (@ \div 2^col) % 2 = 1 THEN @ ELSE @ + 2^col]

ClearCell(m, row, col) ==
    [m EXCEPT ![row] = IF (@ \div 2^col) % 2 = 1 THEN @ - 2^col ELSE @]

\* codes that E0 and E0 F0 pass on to the matrix
E0Codes == (0 .. \h7F) \ {\h12, \h59, \h7E}

(* C8 as stated: with the decoder in INIT a code b in 01..7F sets exactly  *)
(* cell (b >> 3, b & 7) and changes no other cell, and after F0 it clears  *)
(* exactly that cell; after E0 a code b in 00..7F other than 12, 59, 7E    *)
(* sets exactly cell ((b | 80) >> 3, b & 7) and after E0 F0 clears exactly *)
(* that cell; E0 75 addresses the cell of Up.                              *)
C8_OrdinaryCodes_Orig ==
    [][Decoded =>
        /\ (cs2_state = "INIT" /\ code' \in 1 .. \h7F)
              => (matrix' = SetCell(matrix, code' \div 8, code' % 8)
                  /\ cs2_state' = "INIT")
        /\ (cs2_state = "F0" /\ code' \in 1 .. \h7F)
              => (matrix' = ClearCell(matrix, code' \div 8, code' % 8)
                  /\ cs2_state' = "INIT")
        /\ (cs2_state = "E0" /\ code' \in E0Codes)
              => (matrix' = SetCell(matrix, (code' + \h80) \div 8, code' % 8)
                  /\ cs2_state' = "INIT")
        /\ (cs2_state = "E0_F0" /\ code' \in E0Codes)
              => (matrix' = ClearCell(matrix, (code' + \h80) \div 8, code' % 8)
                  /\ cs2_state' = "INIT")
        /\ (cs2_state = "E0" /\ code' = \h75)
              => (matrix'[\h1E] = SetCell(matrix, \h1E, 5)[\h1E]
                  /\ unimap_cs2[\h1E + 1][5 + 1] = "UNIMAP_UP")]_vars

(* C8 amended: as C8, except that the Pause cell FE, if set when the first *)
(* code of the sequence is read, is cleared as well.                       *)
C8_OrdinaryCodes ==
    [][Decoded =>
        /\ (cs2_state = "INIT" /\ code' \in 1 .. \h7F)
              => (matrix' = SetCell(ClearCell(matrix, PAUSE \div 8, PAUSE % 8),
                                    code' \div 8, code' % 8)
                  /\ cs2_state' = "INIT")
        /\ (cs2_state = "F0" /\ code' \in 1 .. \h7F)
              => (matrix' = ClearCell(matrix, code' \div 8, code' % 8)
                  /\ cs2_state' = "INIT")
        /\ (cs2_state = "E0" /\ code' \in E0Codes)
              => (matrix' = SetCell(matrix, (code' + \h80) \div 8, code' % 8)
                  /\ cs2_state' = "INIT")
        /\ (cs2_state = "E0_F0" /\ code' \in E0Codes)
              => (matrix' = ClearCell(matrix, (code' + \h80) \div 8, code' % 8)
                  /\ cs2_state' = "INIT")
        /\ (cs2_state = "E0" /\ code' = \h75)
              => (matrix'[\h1E] = SetCell(matrix, \h1E, 5)[\h1E]
                  /\ unimap_cs2[\h1E + 1][5 + 1] = "UNIMAP_UP")]_vars

\* E0 75 set the cell of Up next to the keys already held
C8_Witness ==
    /\ last_op = "matrix_scan"
    /\ nscan = 1
    /\ code = \h75
    /\ cs2_state = "INIT"
    /\ Cells(matrix) = {\h1C, \h12, \h59, F7, \hF5}

(* C9: corrupted codes are handled by clearing: 00 and any code >= 80      *)
(* other than E0, F0, E1, 83, 84, AA, FC in INIT; any code >= 80 other     *)
(* than F0 in E0; any code >= 80 other than 83, 84 in F0; any code >= 80   *)
(* in E0_F0: each zeroes every matrix row, calls clear_keyboard once,      *)
(* takes the decoder to INIT and returns 0, and the lifecycle stays LOOP.  *)
C9_CorruptionClears ==
    [][(/\ Decoded
        /\ state = "LOOP"
        /\ \/ cs2_state = "INIT"
              /\ (code' = \h00
                  \/ (code' >= \h80
                      /\ code' \notin {\hE0, \hF0, \hE1, \h83, \h84, \hAA, \hFC}))
           \/ cs2_state = "E0" /\ code' >= \h80 /\ code' # \hF0
           \/ cs2_state = "F0" /\ code' >= \h80 /\ code' \notin {\h83, \h84}
           \/ cs2_state = "E0_F0" /\ code' >= \h80)
       => (/\ \A r \in Rows : matrix'[r] = 0
           /\ cleared' = 1
           /\ cs2_state' = "INIT"
           /\ ret' = 0
           /\ state' = "LOOP")]_vars

\* a prefix code arrived where a key code was due and the held keys were cleared
C9_Witness ==
    /\ last_op = "matrix_scan"
    /\ nscan = 1
    /\ code = \hE0
    /\ cleared = 1
    /\ matrix = EmptyMatrix
    /\ cs2_state = "INIT"
    /\ state = "LOOP"

(* C10: a matrix_scan call entered in LOOP with a receive error in the     *)
(* transport error flag (neither send error nor buffer full) clears the    *)
(* flag, sets the protocol to AT, the family to NONE, the ID to 0, zeroes  *)
(* the matrix and leaves the lifecycle in WAIT_STARTUP.                    *)
C10_RecvErrorReinit ==
    [][(/\ last_op' = "matrix_scan"
        /\ state = "LOOP"
        /\ ibmpc_error # {}
        /\ "SEND" \notin ibmpc_error
        /\ "FULL" \notin ibmpc_error)
       => (/\ ibmpc_error' = {}
           /\ ibmpc_protocol' = "AT"
           /\ keyboard_kind' = "NONE"
           /\ keyboard_id' = \h0000
           /\ \A r \in Rows : matrix'[r] = 0
           /\ state' = "WAIT_STARTUP")]_vars

\* the lifecycle was taken back from LOOP in the middle of a sequence
C10_Witness ==
    /\ last_op = "matrix_scan"
    /\ state = "WAIT_STARTUP"
    /\ elapsed = 0
    /\ cs2_state = "E0_F0"
    /\ keyboard_kind = "NONE"
    /\ matrix = EmptyMatrix

---------------------------------------------------------------------------
(* Errors that do not re-initialise. *)

\* the error matrix_scan finds has the SEND or the FULL bit set
HasSendOrFull(err) == err \cap {"SEND", "FULL"} # {}

\* C11: a matrix_scan call that finds an error with the SEND or the FULL
\* bit set (whatever other bits are set), or any error in a lifecycle state
\* other than LOOP, clears the error flag and performs exactly the step of
\* the switch it performs from the same lifecycle state with no error
C11_SendFullKeepsLifecycle ==
    [][(/\ last_op' = "matrix_scan"
        /\ ibmpc_error # IBMPC_ERR_NONE
        /\ HasSendOrFull(ibmpc_error) \/ state # "LOOP")
       => (/\ ibmpc_error' = IBMPC_ERR_NONE
           /\ scan_switch(state, Bytes))]_vars

\* a LOOP scan found the receive and the send bit set together and still
\* decoded the make of key 1C
C11_Witness ==
    /\ err_seen = {"RECV", "SEND"}
    /\ state = "LOOP"
    /\ code = \h1C
    /\ IsOn(matrix, \h1C)

---------------------------------------------------------------------------
(* Keyboard identification. *)

\* the ID the documented procedure yields from the values received
DocumentedId(rx) ==
    IF rx[1] = -1 THEN \hFFFF
    ELSE IF rx[1] # \hFA THEN \hFFFE
    ELSE IF rx[2] = -1 THEN \h0000
    ELSE rx[2] * 256 + (IF rx[3] = -1 THEN \hFF ELSE rx[3])

\* the family the documented procedure yields from the values received
DocumentedKind(rx) ==
    IF rx[1] = -1 THEN "PC_XT"
    ELSE IF rx[1] # \hFA THEN "PC_AT"
    ELSE IF rx[2] = -1 THEN "PC_AT"
    ELSE IF rx[2] = \hAB THEN "PC_AT"
    ELSE IF rx[2] = \hBF THEN "PC_TERMINAL"
    ELSE IF DocumentedId(rx) = \h00FF THEN "NONE"
    ELSE "PC_AT"

\* C12: the READ_ID step classifies the keyboard as documented: a failed
\* send of F2 gives ID FFFF and family XT; a reply other than FA gives FFFE
\* and AT; FA with no byte in the first wait gives 0000 and AT; otherwise
\* the ID is the two bytes (FF for a second byte that timed out), AB?? is
\* AT, BF?? is Terminal, 00FF is None and anything else is AT; the protocol
\* is XT exactly for family XT and the lifecycle is in LED_SET afterwards
C12_ReadIdClassification ==
    [][(last_op' = "matrix_scan" /\ state = "READ_ID")
       => (/\ state' = "LED_SET"
           /\ keyboard_id' = DocumentedId(id_rx')
           /\ keyboard_kind' = DocumentedKind(id_rx')
           /\ (ibmpc_protocol' = "XT") <=> (keyboard_kind' = "PC_XT"))]_vars

\* the bytes sent contain F5 then F2, and an F4 after the last F5
ScanningReenabled(s) ==
    /\ Len(s) >= 3
    /\ s[1] = \hF5
    /\ s[2] = \hF2
    /\ \E j \in 3..Len(s) : s[j] = \hF4 /\ \A k \in j..Len(s) : s[k] # \hF5

\* C13: whatever the outcome of the identification (failed send of F2,
\* reply other than FA, ACK with no ID byte, two ID bytes), when the
\* lifecycle is in LOOP the keyboard has been sent F5, then F2, and F4
\* (enable scanning) after the last F5 (disable scanning)
C13_ScanningReenabled ==
    state = "LOOP" => ScanningReenabled(sent)

---------------------------------------------------------------------------
(* The INIT step. *)

\* C14: every matrix_scan call that takes the INIT step, the first one
\* after matrix_init and every one that re-enters INIT from LOOP on a
\* receive error, leaves the matrix all zero, the family NONE, the ID 0000,
\* the protocol AT and the lifecycle in WAIT_STARTUP
C14_InitStep ==
    [][(/\ last_op' = "matrix_scan"
        /\ \/ state = "INIT"
           \/ /\ state = "LOOP"
              /\ ibmpc_error # IBMPC_ERR_NONE
              /\ ~HasSendOrFull(ibmpc_error))
       => (/\ \A r \in Rows : matrix'[r] = 0
           /\ keyboard_kind' = "NONE"
           /\ keyboard_id' = 0
           /\ ibmpc_protocol' = "AT"
           /\ state' = "WAIT_STARTUP")]_vars

\* a keyboard identified as Terminal (ID BFBF) was dropped by a receive
\* error in LOOP: the settings are back to those of INIT
C14_Witness ==
    /\ last_op = "matrix_scan"
    /\ err_seen = {"RECV"}
    /\ state = "WAIT_STARTUP"
    /\ id_rx = <<\hFA, \hBF, \hBF>>
    /\ keyboard_kind = "NONE"
    /\ ibmpc_protocol = "AT"

---------------------------------------------------------------------------
(* matrix_make and matrix_break as functions: SpecMk applies matrix_make   *)
(* and then matrix_break with one code to each of the matrices of          *)
(* InitMatrices.                                                           *)

\* the variables neither function touches
mk_unchanged == <<state, cs2_state, keyboard_kind, keyboard_id, ibmpc_protocol,
                  ibmpc_error, elapsed, code, ret, cleared, fed, nscan,
                  err_seen, id_rx, sent, result, recvd, led_out, run,
                  pc, waited>>

InitMk ==
    /\ InitLoop
    /\ cs2_state = "INIT"
    /\ run = 0
    /\ matrix \in InitMatrices

CallMake ==
    /\ last_op = "matrix_scan"
    /\ \E c \in Byte :
          /\ matrix' = matrix_make(matrix, c)
          /\ args' = <<c>>
    /\ m0' = matrix
    /\ last_op' = "matrix_make"
    /\ UNCHANGED mk_unchanged

CallBreak ==
    /\ last_op = "matrix_make"
    /\ matrix' = matrix_break(matrix, args[1])
    /\ last_op' = "matrix_break"
    /\ UNCHANGED <<m0, args>>
    /\ UNCHANGED mk_unchanged

NextMk == CallMake \/ CallBreak

SpecMk == InitMk /\ [][NextMk]_vars

(* C15 as stated: for every code c and every matrix, matrix_make(c)        *)
(* followed by matrix_break(c) gives back the matrix there was before.     *)
C15_MakeBreakRestores_Orig ==
    last_op = "matrix_break" => matrix = m0

\* C15: matrix_make(c) followed by matrix_break(c) gives the prior matrix
\* with cell c clear: the prior matrix itself when cell c was clear in it,
\* and otherwise the prior matrix without cell c
C15_MakeBreakRestores ==
    last_op = "matrix_break" =>
        /\ matrix = ClearCell(m0, ROW(args[1]), COL(args[1]))
        /\ ~IsOn(m0, args[1]) => matrix = m0

\* make and break of 76 over a matrix that holds 1C, 12, 59 and F7
C15_Witness ==
    /\ last_op = "matrix_break"
    /\ args = <<\h76>>
    /\ IsOn(m0, \h1C)
    /\ matrix = m0

---------------------------------------------------------------------------
(* matrix_key_count. *)

\* C16: in every state matrix_scan reaches, matrix_key_count() returns the
\* number of cells set in the 32 rows: its 8-bit counter does not wrap,
\* because cells 00, 92 and D9 are never set and so fewer than 256 cells
\* are set at a time
C16_KeyCountExact ==
    /\ matrix_key_count(matrix) = Cardinality(Cells(matrix))
    /\ Cardinality(Cells(matrix)) < 256
    /\ Cells(matrix) \cap NeverSet = {}

\* Pause completes while every other cell the decoder can set is held:
\* 253 cells are set and counted
C16_Witness ==
    /\ nscan = 1
    /\ Cells(matrix) = Byte \ NeverSet
    /\ matrix_key_count(matrix) = 253

---------------------------------------------------------------------------
(* action_for_key: the translation tables of Scan Code Set 1 and 3, the    *)
(* universal key positions and the lookup of the action.                   *)

\* unimap_cs1: the 16 rows its initialiser lists
unimap_cs1 == <<
       <<"UNIMAP_NO", "UNIMAP_ESC", "UNIMAP_1", "UNIMAP_2", "UNIMAP_3", "UNIMAP_4", "UNIMAP_5", "UNIMAP_6">>,
       <<"UNIMAP_7", "UNIMAP_8", "UNIMAP_9", "UNIMAP_0", "UNIMAP_MINUS", "UNIMAP_EQUAL", "UNIMAP_BSPACE", "UNIMAP_TAB">>,
       <<"UNIMAP_Q", "UNIMAP_W", "UNIMAP_E", "UNIMAP_R", "UNIMAP_T", "UNIMAP_Y", "UNIMAP_U", "UNIMAP_I">>,
       <<"UNIMAP_O", "UNIMAP_P", "UNIMAP_LBRC", "UNIMAP_RBRC", "UNIMAP_ENTER", "UNIMAP_LCTL", "UNIMAP_A", "UNIMAP_S">>,
       <<"UNIMAP_D", "UNIMAP_F", "UNIMAP_G", "UNIMAP_H", "UNIMAP_J", "UNIMAP_K", "UNIMAP_L", "UNIMAP_SCLN">>,
       <<"UNIMAP_QUOTE", "UNIMAP_GRAVE", "UNIMAP_LSHIFT", "UNIMAP_BSLASH", "UNIMAP_Z", "UNIMAP_X", "UNIMAP_C", "UNIMAP_V">>,
       <<"UNIMAP_B", "UNIMAP_N", "UNIMAP_M", "UNIMAP_COMMA", "UNIMAP_DOT", "UNIMAP_SLASH", "UNIMAP_RSHIFT", "UNIMAP_PAST">>,
       <<"UNIMAP_LALT", "UNIMAP_SPACE", "UNIMAP_CAPS", "UNIMAP_F1", "UNIMAP_F2", "UNIMAP_F3", "UNIMAP_F4", "UNIMAP_F5">>,
       <<"UNIMAP_F6", "UNIMAP_F7", "UNIMAP_F8", "UNIMAP_F9", "UNIMAP_F10", "UNIMAP_NLCK", "UNIMAP_SLCK", "UNIMAP_P7">>,
       <<"UNIMAP_P8", "UNIMAP_P9", "UNIMAP_PMNS", "UNIMAP_P4", "UNIMAP_P5", "UNIMAP_P6", "UNIMAP_PPLS", "UNIMAP_P1">>,
       <<"UNIMAP_P2", "UNIMAP_P3", "UNIMAP_P0", "UNIMAP_PDOT", "UNIMAP_PSCR", "UNIMAP_PAUSE", "UNIMAP_NUHS", "UNIMAP_F11">>,
       <<"UNIMAP_F12", "UNIMAP_PEQL", "UNIMAP_LGUI", "UNIMAP_RGUI", "UNIMAP_APP", "UNIMAP_MUTE", "UNIMAP_VOLD", "UNIMAP_VOLU">>,
       <<"UNIMAP_UP", "UNIMAP_LEFT", "UNIMAP_DOWN", "UNIMAP_RIGHT", "UNIMAP_F13", "UNIMAP_F14", "UNIMAP_F15", "UNIMAP_F16">>,
       <<"UNIMAP_F17", "UNIMAP_F18", "UNIMAP_F19", "UNIMAP_F20", "UNIMAP_F21", "UNIMAP_F22", "UNIMAP_F23", "UNIMAP_PENT">>,
       <<"UNIMAP_KANA", "UNIMAP_INSERT", "UNIMAP_DELETE", "UNIMAP_RO", "UNIMAP_HOME", "UNIMAP_END", "UNIMAP_F24", "UNIMAP_PGUP">>,
       <<"UNIMAP_PGDN", "UNIMAP_HENK", "UNIMAP_RCTL", "UNIMAP_MHEN", "UNIMAP_RALT", "UNIMAP_JYEN", "UNIMAP_PCMM", "UNIMAP_PSLS">>
    >>

\* unimap_cs3: the 16 rows its initialiser lists
unimap_cs3 == <<
       <<"UNIMAP_NO", "UNIMAP_LGUI", "UNIMAP_VOLD", "UNIMAP_PAUSE", "UNIMAP_SLCK", "UNIMAP_PSCR", "UNIMAP_ESC", "UNIMAP_F1">>,
       <<"UNIMAP_F13", "UNIMAP_RGUI", "UNIMAP_VOLU", "UNIMAP_MHEN", "UNIMAP_HENK", "UNIMAP_TAB", "UNIMAP_GRV", "UNIMAP_F2">>,
       <<"UNIMAP_F14", "UNIMAP_LCTL", "UNIMAP_LSHIFT", "UNIMAP_NUBS", "UNIMAP_CAPS", "UNIMAP_Q", "UNIMAP_1", "UNIMAP_F3">>,
       <<"UNIMAP_F15", "UNIMAP_LALT", "UNIMAP_Z", "UNIMAP_S", "UNIMAP_A", "UNIMAP_W", "UNIMAP_2", "UNIMAP_F4">>,
       <<"UNIMAP_F16", "UNIMAP_C", "UNIMAP_X", "UNIMAP_D", "UNIMAP_E", "UNIMAP_4", "UNIMAP_3", "UNIMAP_F5">>,
       <<"UNIMAP_F17", "UNIMAP_SPACE", "UNIMAP_V", "UNIMAP_F", "UNIMAP_T", "UNIMAP_R", "UNIMAP_5", "UNIMAP_F6">>,
       <<"UNIMAP_F18", "UNIMAP_N", "UNIMAP_B", "UNIMAP_H", "UNIMAP_G", "UNIMAP_Y", "UNIMAP_6", "UNIMAP_F7">>,
       <<"UNIMAP_F19", "UNIMAP_RALT", "UNIMAP_M", "UNIMAP_J", "UNIMAP_U", "UNIMAP_7", "UNIMAP_8", "UNIMAP_F8">>,
       <<"UNIMAP_F20", "UNIMAP_COMMA", "UNIMAP_K", "UNIMAP_I", "UNIMAP_O", "UNIMAP_0", "UNIMAP_9", "UNIMAP_F9">>,
       <<"UNIMAP_F21", "UNIMAP_DOT", "UNIMAP_SLASH", "UNIMAP_L", "UNIMAP_SCOLON", "UNIMAP_P", "UNIMAP_MINUS", "UNIMAP_F10">>,
       <<"UNIMAP_F22", "UNIMAP_RO", "UNIMAP_QUOTE", "UNIMAP_NUHS", "UNIMAP_LBRC", "UNIMAP_EQUAL", "UNIMAP_F11", "UNIMAP_F23">>,
       <<"UNIMAP_RCTL", "UNIMAP_RSHIFT", "UNIMAP_ENTER", "UNIMAP_RBRC", "UNIMAP_BSLASH", "UNIMAP_JYEN", "UNIMAP_F12", "UNIMAP_F24">>,
       <<"UNIMAP_DOWN", "UNIMAP_LEFT", "UNIMAP_APP", "UNIMAP_UP", "UNIMAP_DEL", "UNIMAP_END", "UNIMAP_BSPACE", "UNIMAP_INS">>,
       <<"UNIMAP_KANA", "UNIMAP_P1", "UNIMAP_RIGHT", "UNIMAP_P4", "UNIMAP_P7", "UNIMAP_PGDN", "UNIMAP_HOME", "UNIMAP_PGUP">>,
       <<"UNIMAP_P0", "UNIMAP_PDOT", "UNIMAP_P2", "UNIMAP_P5", "UNIMAP_P6", "UNIMAP_P8", "UNIMAP_NLCK", "UNIMAP_PSLS">>,
       <<"UNIMAP_PEQL", "UNIMAP_PENT", "UNIMAP_P3", "UNIMAP_PCMM", "UNIMAP_PPLS", "UNIMAP_P9", "UNIMAP_PAST", "UNIMAP_PMNS">>
    >>

\* the byte of each universal key position the tables name: the high nibble
\* is one of 8 rows, the low nibble one of 16 columns
UnimapCodes == {
    <<"UNIMAP_KANA", \h00>>, <<"UNIMAP_VOLD", \h01>>, <<"UNIMAP_VOLU", \h02>>,
    <<"UNIMAP_MUTE", \h03>>, <<"UNIMAP_A", \h04>>, <<"UNIMAP_B", \h05>>,
    <<"UNIMAP_C", \h06>>, <<"UNIMAP_D", \h07>>, <<"UNIMAP_E", \h08>>,
    <<"UNIMAP_F", \h09>>, <<"UNIMAP_G", \h0A>>, <<"UNIMAP_H", \h0B>>,
    <<"UNIMAP_I", \h0C>>, <<"UNIMAP_J", \h0D>>, <<"UNIMAP_K", \h0E>>,
    <<"UNIMAP_L", \h0F>>, <<"UNIMAP_M", \h10>>, <<"UNIMAP_N", \h11>>,
    <<"UNIMAP_O", \h12>>, <<"UNIMAP_P", \h13>>, <<"UNIMAP_Q", \h14>>,
    <<"UNIMAP_R", \h15>>, <<"UNIMAP_S", \h16>>, <<"UNIMAP_T", \h17>>,
    <<"UNIMAP_U", \h18>>, <<"UNIMAP_V", \h19>>, <<"UNIMAP_W", \h1A>>,
    <<"UNIMAP_X", \h1B>>, <<"UNIMAP_Y", \h1C>>, <<"UNIMAP_Z", \h1D>>,
    <<"UNIMAP_1", \h1E>>, <<"UNIMAP_2", \h1F>>, <<"UNIMAP_3", \h20>>,
    <<"UNIMAP_4", \h21>>, <<"UNIMAP_5", \h22>>, <<"UNIMAP_6", \h23>>,
    <<"UNIMAP_7", \h24>>, <<"UNIMAP_8", \h25>>, <<"UNIMAP_9", \h26>>,
    <<"UNIMAP_0", \h27>>, <<"UNIMAP_ENTER", \h28>>, <<"UNIMAP_ESC", \h29>>,
    <<"UNIMAP_BSPACE", \h2A>>, <<"UNIMAP_TAB", \h2B>>, <<"UNIMAP_SPACE", \h2C>>,
    <<"UNIMAP_MINUS", \h2D>>, <<"UNIMAP_EQUAL", \h2E>>, <<"UNIMAP_LBRC", \h2F>>,
    <<"UNIMAP_RBRC", \h30>>, <<"UNIMAP_BSLASH", \h31>>, <<"UNIMAP_NUHS", \h32>>,
    <<"UNIMAP_SCLN", \h33>>, <<"UNIMAP_SCOLON", \h33>>, <<"UNIMAP_QUOTE", \h34>>,
    <<"UNIMAP_GRAVE", \h35>>, <<"UNIMAP_GRV", \h35>>, <<"UNIMAP_COMMA", \h36>>,
    <<"UNIMAP_DOT", \h37>>, <<"UNIMAP_SLASH", \h38>>, <<"UNIMAP_CAPS", \h39>>,
    <<"UNIMAP_F1", \h3A>>, <<"UNIMAP_F2", \h3B>>, <<"UNIMAP_F3", \h3C>>,
    <<"UNIMAP_F4", \h3D>>, <<"UNIMAP_F5", \h3E>>, <<"UNIMAP_F6", \h3F>>,
    <<"UNIMAP_F7", \h40>>, <<"UNIMAP_F8", \h41>>, <<"UNIMAP_F9", \h42>>,
    <<"UNIMAP_F10", \h43>>, <<"UNIMAP_F11", \h44>>, <<"UNIMAP_F12", \h45>>,
    <<"UNIMAP_PSCR", \h46>>, <<"UNIMAP_SLCK", \h47>>, <<"UNIMAP_PAUSE", \h48>>,
    <<"UNIMAP_INS", \h49>>, <<"UNIMAP_INSERT", \h49>>, <<"UNIMAP_HOME", \h4A>>,
    <<"UNIMAP_PGUP", \h4B>>, <<"UNIMAP_DEL", \h4C>>, <<"UNIMAP_DELETE", \h4C>>,
    <<"UNIMAP_END", \h4D>>, <<"UNIMAP_PGDN", \h4E>>, <<"UNIMAP_PGDOWN", \h4E>>,
    <<"UNIMAP_RIGHT", \h4F>>, <<"UNIMAP_LEFT", \h50>>, <<"UNIMAP_DOWN", \h51>>,
    <<"UNIMAP_UP", \h52>>, <<"UNIMAP_NLCK", \h53>>, <<"UNIMAP_PSLS", \h54>>,
    <<"UNIMAP_PAST", \h55>>, <<"UNIMAP_PMNS", \h56>>, <<"UNIMAP_PPLS", \h57>>,
    <<"UNIMAP_PENT", \h58>>, <<"UNIMAP_P1", \h59>>, <<"UNIMAP_P2", \h5A>>,
    <<"UNIMAP_P3", \h5B>>, <<"UNIMAP_P4", \h5C>>, <<"UNIMAP_P5", \h5D>>,
    <<"UNIMAP_P6", \h5E>>, <<"UNIMAP_P7", \h5F>>, <<"UNIMAP_P8", \h60>>,
    <<"UNIMAP_P9", \h61>>, <<"UNIMAP_P0", \h62>>, <<"UNIMAP_PDOT", \h63>>,
    <<"UNIMAP_NUBS", \h64>>, <<"UNIMAP_APP", \h65>>, <<"UNIMAP_PCMM", \h66>>,
    <<"UNIMAP_PEQL", \h67>>, <<"UNIMAP_F13", \h68>>, <<"UNIMAP_F14", \h69>>,
    <<"UNIMAP_F15", \h6A>>, <<"UNIMAP_F16", \h6B>>, <<"UNIMAP_F17", \h6C>>,
    <<"UNIMAP_F18", \h6D>>, <<"UNIMAP_F19", \h6E>>, <<"UNIMAP_F20", \h6F>>,
    <<"UNIMAP_F21", \h70>>, <<"UNIMAP_F22", \h71>>, <<"UNIMAP_F23", \h72>>,
    <<"UNIMAP_F24", \h73>>, <<"UNIMAP_JYEN", \h74>>, <<"UNIMAP_RO", \h75>>,
    <<"UNIMAP_HENK", \h76>>, <<"UNIMAP_MHEN", \h77>>, <<"UNIMAP_LCTL", \h78>>,
    <<"UNIMAP_LSHIFT", \h79>>, <<"UNIMAP_LALT", \h7A>>, <<"UNIMAP_LGUI", \h7B>>,
    <<"UNIMAP_RCTL", \h7C>>, <<"UNIMAP_RCTRL", \h7C>>, <<"UNIMAP_RSHIFT", \h7D>>,
    <<"UNIMAP_RALT", \h7E>>, <<"UNIMAP_RGUI", \h7F>> }

\* the reserved position that maps to nothing
UNIMAP_NO == \h80

unimap_code(name) ==
    IF name = "UNIMAP_NO" THEN UNIMAP_NO
    ELSE (CHOOSE p \in UnimapCodes : p[1] = name)[2]

\* pgm_read_byte(&t[row][col]) of a table declared with MATRIX_ROWS rows:
\* the rows the initialiser does not list are zero
table_byte(t, row, col) ==
    IF row < Len(t) THEN unimap_code(t[row + 1][col + 1]) ELSE 0

\* the entry of the layered action table at (layer, row, col), by its place
actionmaps(layer, row, col) == <<"actionmaps", layer, row, col>>

ACTION_NO == "ACTION_NO"

\* action_for_key without the test for UNIMAP_NO
action_for_key_nocheck(kind, layer, row, col) ==
    LET unimap_pos == CASE kind = "PC_XT" -> table_byte(unimap_cs1, row, col)
                        [] kind = "PC_AT" -> table_byte(unimap_cs2, row, col)
                        [] kind = "PC_TERMINAL" -> table_byte(unimap_cs3, row, col)
                        [] OTHER -> UNIMAP_NO
    IN  IF kind \notin {"PC_XT", "PC_AT", "PC_TERMINAL"} THEN ACTION_NO
        ELSE actionmaps(layer, BitAnd(unimap_pos, \h70) \div 16,
                        BitAnd(unimap_pos, \h0F))

action_for_key(kind, layer, row, col) ==
    LET unimap_pos == CASE kind = "PC_XT" -> table_byte(unimap_cs1, row, col)
                        [] kind = "PC_AT" -> table_byte(unimap_cs2, row, col)
                        [] kind = "PC_TERMINAL" -> table_byte(unimap_cs3, row, col)
                        [] OTHER -> UNIMAP_NO
    IN  IF kind \notin {"PC_XT", "PC_AT", "PC_TERMINAL"} THEN ACTION_NO
        ELSE IF unimap_pos = UNIMAP_NO THEN ACTION_NO
        ELSE actionmaps(layer, BitAnd(unimap_pos, \h70) \div 16,
                        BitAnd(unimap_pos, \h0F))

\* the layers SpecKey resolves keys on
MaxLayer == 1
Layers == 0 .. MaxLayer

\* the replies that identify the keyboards SpecKey resolves keys for: an XT
\* keyboard, a PS/2 keyboard, a Terminal keyboard and a mouse
KeyReplies == {<<-1, -1, -1>>, <<\hFA, \hAB, \h83>>, <<\hFA, \hBF, \hBF>>,
               <<\hFA, \h00, \hFF>>}

\* an identified keyboard in LOOP, no key held
InitKey ==
    /\ state = "LOOP"
    /\ cs2_state = "INIT"
    /\ matrix = EmptyMatrix
    /\ \E r \in KeyReplies :
          /\ keyboard_id = read_keyboard_id(r[1], r[2], r[3])
          /\ id_rx = rx_of_read_keyboard_id(r[1], r[2], r[3])
          /\ sent = sent_by_read_keyboard_id(r[1], r[2], r[3])
    /\ keyboard_kind = kind_of_id(keyboard_id)
    /\ ibmpc_protocol = protocol_of_kind(keyboard_kind)
    /\ ibmpc_error = IBMPC_ERR_NONE
    /\ elapsed = ExitElapsed
    /\ code = ToU16(-1)
    /\ ret = 0
    /\ cleared = 0
    /\ last_op = "matrix_scan"
    /\ fed = <<>>
    /\ m0 = EmptyMatrix
    /\ nscan = 0
    /\ err_seen = IBMPC_ERR_NONE
    /\ args = <<>>
    /\ result = 1
    /\ recvd = <<>>
    /\ led_out = <<>>
    /\ pc = "idle"
    /\ waited = 0
    /\ run = 0

\* what action_for_key does not write: everything but its result
key_unchanged == <<state, cs2_state, matrix, keyboard_kind, keyboard_id,
                   ibmpc_protocol, ibmpc_error, elapsed, code, ret, cleared,
                   fed, m0, nscan, err_seen, id_rx, sent, recvd, led_out, run,
                   pc, waited>>

CallActionForKey ==
    /\ \E layer \in Layers, row \in Rows, col \in Cols :
          /\ args' = <<layer, row, col>>
          /\ result' = action_for_key(keyboard_kind, layer, row, col)
    /\ last_op' = "action_for_key"
    /\ UNCHANGED key_unchanged

NextKey == CallActionForKey

SpecKey == InitKey /\ [][NextKey]_vars

\* the table the documentation assigns to a family
DocumentedTable(kind) ==
    CASE kind = "PC_XT" -> unimap_cs1
      [] kind = "PC_AT" -> unimap_cs2
      [] kind = "PC_TERMINAL" -> unimap_cs3

\* the action the documentation assigns to (family, layer, row, col)
DocumentedAction(kind, layer, row, col) ==
    IF kind \notin {"PC_XT", "PC_AT", "PC_TERMINAL"} THEN ACTION_NO
    ELSE LET ukp == table_byte(DocumentedTable(kind), row, col)
         IN  IF ukp = UNIMAP_NO THEN ACTION_NO
             ELSE actionmaps(layer, ukp \div 16, ukp % 16)

\* C17: action_for_key(layer, row, col) writes no state and returns
\* ACTION_NO when the family is not XT, AT or Terminal, ACTION_NO when the
\* table of the family holds UNIMAP_NO at (row, col), and otherwise the
\* entry of the action table at (layer, ukp >> 4, ukp & 0x0F), ukp being
\* the entry at (row, col) of the table of the family; the value is a
\* function of (family, layer, row, col)
C17_ActionForKey ==
    [][last_op' = "action_for_key"
       => (/\ UNCHANGED key_unchanged
           /\ result' = DocumentedAction(keyboard_kind, args'[1], args'[2], args'[3]))]_vars

\* key 1C of a Terminal keyboard resolved on layer 1: position A, the entry
\* at row 0, column 4
C17_Witness ==
    /\ last_op = "action_for_key"
    /\ keyboard_kind = "PC_TERMINAL"
    /\ args = <<1, ROW(\h1C), COL(\h1C)>>
    /\ result = actionmaps(1, 0, 4)

---------------------------------------------------------------------------
(* Cells that are keys of the Set 2 layout. *)

\* the cells a step sets
NewCells ==
    {c \in UNION {{8 * r + k : k \in Cols} : r \in {q \in Rows : matrix'[q] # matrix[q]}} :
        IsOn(matrix', c) /\ ~IsOn(matrix, c)}

(* C18 as stated: every cell that is set is the cell of a key of the Set 2 *)
(* layout, one whose entry in unimap_cs2 is not UNIMAP_NO.                 *)
C18_OnlyLayoutCells_Orig ==
    \A r \in Rows : matrix[r] # 0 =>
        \A k \in Cols : matrix_is_on(matrix, r, k) =>
            unimap_cs2[r + 1][k + 1] # "UNIMAP_NO"

\* C18: cells 00, 92 and D9 are never set, and a cell that is set while its
\* entry in unimap_cs2 is UNIMAP_NO is the cell the code just read
\* addresses by itself: cell c for a code c < 80 read in INIT, cell c | 80
\* for a code c read after E0; the cells F7, PRINT_SCREEN and PAUSE that
\* the decoder substitutes are keys of the layout
C18_OnlyLayoutCells ==
    [][Decoded =>
        \A c \in NewCells :
            /\ c \notin NeverSet
            /\ unimap_cs2_at(c) = "UNIMAP_NO" =>
                  \/ cs2_state = "INIT" /\ c = code' /\ c < \h80
                  \/ cs2_state = "E0" /\ c = code' + \h80]_vars

\* E0 77 has set cell F7, which no key of the layout has
C18_Witness ==
    /\ last_op = "matrix_scan"
    /\ code = \h77
    /\ cs2_state = "INIT"
    /\ IsOn(matrix, \hF7)
    /\ unimap_cs2_at(\hF7) = "UNIMAP_NO"

---------------------------------------------------------------------------
(* Return of the decoder to INIT. *)

\* code c read in decoder state st is the last code of a make (a code below
\* 80, 83 or 84), of F0 xx, of E0 F0 xx (xx below 80), of the Pause
\* sequence or of the Control-Pause sequence
CompletesOther(st, c) ==
    \/ st = "INIT" /\ (c < \h80 \/ c \in {\h83, \h84})
    \/ st = "F0" /\ c < \h80
    \/ st = "E0_F0" /\ c < \h80
    \/ st = "E1_14_77_E1_F0_14_F0" /\ c = \h77
    \/ st = "E0_7E_E0_F0" /\ c = \h7E

(* C19 as stated: the decoder is back in INIT after the last code of a     *)
(* make, of F0 xx, of E0 xx, of E0 F0 xx (every xx below 80), of Pause and *)
(* of Control-Pause, whatever the matrix holds.                            *)
C19_BackInInit_Orig ==
    [][(Decoded /\ (CompletesOther(cs2_state, code')
                    \/ (cs2_state = "E0" /\ code' < \h80)))
       => cs2_state' = "INIT"]_vars

\* C19: the same, E0 xx taken over every xx below 80 other than 7E: E0 7E
\* leaves the decoder in E0_7E, waiting for the rest of Control-Pause
C19_BackInInit ==
    [][(Decoded /\ (CompletesOther(cs2_state, code')
                    \/ (cs2_state = "E0" /\ code' < \h80 /\ code' # \h7E)))
       => cs2_state' = "INIT"]_vars

\* the last code of Control-Pause read while 1C, the shifts and F7 are
\* held: Pause is set and the decoder is in INIT
C19_Witness ==
    /\ nscan = 1
    /\ code = \h7E
    /\ cs2_state = "INIT"
    /\ Cells(matrix) = {\h1C, \h12, \h59, F7, PAUSE}

---------------------------------------------------------------------------
(* Order of the lifecycle. *)

\* the transitions of the switch
SwitchEdges == {<<"INIT", "WAIT_STARTUP">>, <<"WAIT_STARTUP", "WAIT_STARTUP">>,
                <<"WAIT_STARTUP", "READ_ID">>, <<"READ_ID", "LED_SET">>,
                <<"LED_SET", "LOOP">>, <<"LOOP", "LOOP">>}

\* C20: a matrix_scan call moves the lifecycle only along INIT ->
\* WAIT_STARTUP, WAIT_STARTUP -> WAIT_STARTUP, WAIT_STARTUP -> READ_ID,
\* READ_ID -> LED_SET, LED_SET -> LOOP, LOOP -> LOOP, and LOOP -> INIT, the
\* last only on a receive error and followed in the same call by INIT ->
\* WAIT_STARTUP; nothing else moves it and END is never reached
C20_LifecycleOrder ==
    [][/\ state' # "END"
       /\ state' # state => last_op' = "matrix_scan"
       /\ last_op' = "matrix_scan" =>
             LET mid == state_after_error(state, ibmpc_error)
             IN  /\ mid # state =>
                       /\ state = "LOOP" /\ mid = "INIT"
                       /\ ibmpc_error # IBMPC_ERR_NONE
                       /\ ~HasSendOrFull(ibmpc_error)
                 /\ <<mid, state'>> \in SwitchEdges]_vars

\* second time in LOOP: a PS/2 keyboard was decoded up to F0, dropped by a
\* receive error, and the keyboard identified after it is an XT keyboard
C20_Witness ==
    /\ last_op = "matrix_scan"
    /\ state = "LOOP"
    /\ keyboard_kind = "PC_XT"
    /\ cs2_state = "F0"

---------------------------------------------------------------------------
(* LEDs. *)

\* the masks the documentation has led_set pass on
DocumentedLed(kind, usb_led) ==
    IF kind = "PC_AT"
    THEN <<usb_led \cap {"SCROLL_LOCK", "NUM_LOCK", "CAPS_LOCK"}>>
    ELSE <<>>

\* C21: led_set, called by the host in any lifecycle state or by the
\* LED_SET step of matrix_scan, calls ibmpc_host_set_led exactly when the
\* family is AT, with the Scroll, Num and Caps bits of the host mask and no
\* other bit; for the other families, and in the other steps of
\* matrix_scan, nothing is sent
C21_LedOnlyToAT ==
    [][/\ last_op' = "led_set" =>
             led_out' = DocumentedLed(keyboard_kind, args'[1])
       /\ (last_op' = "matrix_scan" /\ state = "LED_SET") =>
             \E usb_led \in HostLeds :
                 led_out' = DocumentedLed(keyboard_kind, usb_led)
       /\ (last_op' = "matrix_scan" /\ state # "LED_SET") =>
             led_out' = <<>>]_vars

\* the host sets Num, Caps, Scroll and Compose on a PS/2 keyboard in LOOP:
\* the keyboard is sent the first three
C21_Witness ==
    /\ last_op = "led_set"
    /\ state = "LOOP"
    /\ keyboard_kind = "PC_AT"
    /\ args = <<{"NUM_LOCK", "CAPS_LOCK", "SCROLL_LOCK", "COMPOSE"}>>
    /\ led_out = <<{"NUM_LOCK", "CAPS_LOCK", "SCROLL_LOCK"}>>

---------------------------------------------------------------------------
(* LOOP for the families without a decoder. *)

\* C22: a matrix_scan call in LOOP for family XT or Terminal (with no
\* receive error pending) takes from the transport the byte that is
\* available, if any, and discards it: it calls ibmpc_host_recv, and leaves
\* the matrix, the family and the lifecycle state as they were
C22_StubsConsume ==
    [][(/\ last_op' = "matrix_scan"
        /\ state = "LOOP"
        /\ state_after_error(state, ibmpc_error) = "LOOP"
        /\ keyboard_kind \in {"PC_XT", "PC_TERMINAL"})
       => (/\ recvd' # <<>>
           /\ matrix' = matrix
           /\ keyboard_kind' = keyboard_kind
           /\ state' = "LOOP")]_vars

---------------------------------------------------------------------------
(* The value process_cs2 returns. *)

\* C23: process_cs2 returns -1 exactly when it read AA or FC with the
\* decoder in INIT, and then the matrix is the one at entry but for the
\* Pause cell cleared by the pre-step and the decoder is still in INIT; in
\* every other call (no byte, AA or FC after a prefix or inside a Pause
\* sequence, any other code) it returns 0
C23_ReturnValue ==
    [][(last_op' = "matrix_scan" /\ state = "LOOP" /\ state' = "LOOP"
        /\ keyboard_kind = "PC_AT")
       => (/\ ret' \in {0, -1}
           /\ ret' = -1 <=> (/\ cs2_state = "INIT"
                             /\ recvd' \in {<<\hAA>>, <<\hFC>>})
           /\ ret' = -1 =>
                 /\ matrix' = ClearCell(matrix, ROW(PAUSE), COL(PAUSE))
                 /\ cs2_state' = "INIT")]_vars

\* FC read in INIT right after Pause was decoded with Control held: -1 is
\* returned, Pause is released by the pre-step, Control stays
C23_Witness ==
    /\ nscan = 1
    /\ ret = -1
    /\ recvd = <<\hFC>>
    /\ Cells(matrix) = {\h14}
    /\ cs2_state = "INIT"

---------------------------------------------------------------------------
(* WAIT_STARTUP. *)

\* C24: the lifecycle leaves WAIT_STARTUP only in a matrix_scan call that
\* finds more than 1000 ms elapsed since the INIT step, and then for
\* READ_ID; each matrix_scan call in WAIT_STARTUP calls ibmpc_host_recv
\* once and drops what it returns: the matrix, the decoder state, the
\* family and the ID stay as they were
C24_WaitStartup ==
    [][state = "WAIT_STARTUP" =>
          /\ state' # "WAIT_STARTUP" =>
                /\ last_op' = "matrix_scan"
                /\ elapsed > 1000
                /\ state' = "READ_ID"
          /\ last_op' = "matrix_scan" =>
                /\ Len(recvd') = 1
                /\ matrix' = matrix
                /\ cs2_state' = cs2_state
                /\ keyboard_kind' = keyboard_kind
                /\ keyboard_id' = keyboard_id]_vars

\* the self-test result AA was read and dropped by the call that left
\* WAIT_STARTUP; a decoder left in F0 by an earlier keyboard is still in F0
C24_Witness ==
    /\ last_op = "matrix_scan"
    /\ state = "READ_ID"
    /\ recvd = <<\hAA>>
    /\ elapsed > 1000
    /\ cs2_state = "F0"
    /\ matrix = EmptyMatrix
    /\ keyboard_kind = "NONE"

---------------------------------------------------------------------------
(* Writers of the family and the ID. *)

\* C25: keyboard_kind and keyboard_id change only in a matrix_scan call
\* that runs the INIT step (entered in INIT, or in LOOP with a receive
\* error) or the READ_ID step; matrix_scan calls that stay in LOOP,
\* process_cs2 inside them, led_set, the timer and the transport leave
\* both as READ_ID set them
C25_KindAndIdWriters ==
    [][(keyboard_kind' # keyboard_kind \/ keyboard_id' # keyboard_id)
       => (/\ last_op' = "matrix_scan"
           /\ \/ state \in {"INIT", "READ_ID"}
              \/ /\ state = "LOOP"
                 /\ state' = "WAIT_STARTUP"
                 /\ ibmpc_error # IBMPC_ERR_NONE
                 /\ ~HasSendOrFull(ibmpc_error))]_vars

\* a LOOP call that found a send error and decoded the make of 1C: the
\* keyboard is still the PS/2 keyboard AB83 that READ_ID identified
C25_Witness ==
    /\ last_op = "matrix_scan"
    /\ state = "LOOP"
    /\ err_seen = {"SEND"}
    /\ recvd = <<\h1C>>
    /\ id_rx = <<\hFA, \hAB, \h83>>
    /\ keyboard_kind = "PC_AT"
    /\ keyboard_id = \hAB83

---------------------------------------------------------------------------
(* matrix_scan in READ_ID step by step: read_keyboard_id and the polling   *)
(* loops of read_wait.  A call in progress is at pc; every other case of   *)
(* matrix_scan has no loop and is the single step matrix_scan(B).          *)

\* wait_ms of the two read_wait calls
READ_WAIT_MS == 1000

\* what ibmpc_host_recv may return when the keyboard may send the bytes of B:
\* a byte, or -1 when none is ready; it does not wait
ibmpc_host_recv(B) == B \cup {-1}

\* a loop test that ignores the timer
read_wait_loops_forever(c, e, wait_ms) == c = -1

\* the loop test of read_wait, c being the value of ibmpc_host_recv() and e
\* that of timer_elapsed(start)
read_wait_loops(c, e, wait_ms) == c = -1 /\ e < wait_ms

ReadWaits == {"read_wait_1", "read_wait_2"}

\* the bytes the keyboard may send while LOOP or WAIT_STARTUP receives
WaitBytes == {\h1C, \hAA}

\* what the steps of READ_ID before its last leave alone
wait_unchanged == <<state, cs2_state, matrix, keyboard_kind, keyboard_id,
                    ibmpc_protocol, elapsed, fed, m0, nscan, run, recvd,
                    led_out, args, code, ret, cleared>>

\* matrix_scan is called in READ_ID: the error handling, then read_keyboard_id
\* up to the reply to F2
ReadIdEnter ==
    /\ pc = "idle"
    /\ state = "READ_ID"
    /\ last_op' = "matrix_scan"
    /\ err_seen' = ibmpc_error
    /\ ibmpc_error' = IBMPC_ERR_NONE
    /\ result' = 0
    /\ sent' = <<\hF5, \hF2>>
    /\ \E f2 \in F2Replies :
          /\ id_rx' = <<f2>>
          /\ pc' = IF f2 = \hFA THEN "read_wait_1" ELSE "classify"
    /\ waited' = 0
    /\ UNCHANGED wait_unchanged

\* one iteration of the loop of read_wait, ibmpc_host_recv() returning v;
\* when the loop ends read_keyboard_id goes on to its next call
ReadWaitStep(v) ==
    /\ pc \in ReadWaits
    /\ IF read_wait_loops(v, waited, READ_WAIT_MS)
       THEN UNCHANGED vars
       ELSE /\ id_rx' = Append(id_rx, v)
            /\ pc' = IF pc = "read_wait_1" /\ v # -1 THEN "read_wait_2"
                     ELSE "classify"
            /\ sent' = IF pc = "read_wait_2" THEN Append(sent, \hF4) ELSE sent
            /\ waited' = 0
            /\ UNCHANGED <<last_op, err_seen, ibmpc_error, result>>
            /\ UNCHANGED wait_unchanged

ReadWaitPoll ==
    \E v \in ibmpc_host_recv(IF pc = "read_wait_1" THEN IdByte1 ELSE IdByte2) :
        ReadWaitStep(v)

\* the timer advances while read_wait polls it
WaitTick ==
    /\ pc \in ReadWaits
    /\ waited < READ_WAIT_MS
    /\ waited' = (waited + TickMs) % U16
    /\ UNCHANGED <<last_op, err_seen, ibmpc_error, result, id_rx, sent, pc>>
    /\ UNCHANGED wait_unchanged

\* read_keyboard_id has returned: the rest of case READ_ID, and return 1
ReadIdExit ==
    /\ pc = "classify"
    /\ LET b1 == IF Len(id_rx) >= 2 THEN id_rx[2] ELSE -1
           b2 == IF Len(id_rx) >= 3 THEN id_rx[3] ELSE -1
       IN  keyboard_id' = read_keyboard_id(id_rx[1], b1, b2)
    /\ keyboard_kind' = kind_of_id(keyboard_id')
    /\ ibmpc_protocol' = protocol_of_kind(keyboard_kind')
    /\ ibmpc_error' = IBMPC_ERR_NONE
    /\ state' = "LED_SET"
    /\ result' = 1
    /\ pc' = "idle"
    /\ last_op' = "matrix_scan"
    /\ UNCHANGED <<cs2_state, matrix, elapsed, fed, m0, nscan, run, recvd,
                   led_out, args, code, ret, cleared, err_seen, id_rx, sent,
                   waited>>

\* a call of matrix_scan in any other lifecycle state
ScanWait ==
    /\ pc = "idle"
    /\ state # "READ_ID"
    /\ matrix_scan(WaitBytes)
    /\ UNCHANGED nscan

InitWait == Init

NextWait ==
    \/ ScanWait
    \/ ReadIdEnter
    \/ ReadWaitPoll
    \/ WaitTick
    \/ ReadIdExit
    \/ TimerTick
    \/ IbmpcError

\* the timer keeps advancing and the processor keeps executing the call in
\* progress; nothing is assumed of the keyboard
SpecWait ==
    /\ InitWait
    /\ [][NextWait]_vars
    /\ WF_vars(WaitTick)
    /\ WF_vars(ReadWaitStep(-1))
    /\ WF_vars(ReadIdExit)

---------------------------------------------------------------------------
(* C26: every matrix_scan call terminates and returns 1.  A call made in   *)
(* a lifecycle state other than READ_ID is over in its one step, in which  *)
(* it calls ibmpc_host_recv at most once; in READ_ID a polling loop of     *)
(* read_wait is left only with a byte received or with 1000 ms elapsed,    *)
(* and, the timer advancing, every call in progress comes to its end (the  *)
(* keyboard may stay silent for ever), returning 1.                        *)
C26_ScanTerminates ==
    /\ [](pc = "idle" /\ last_op = "matrix_scan" => result = 1)
    /\ [][(pc = "idle" /\ state # "READ_ID" /\ last_op' = "matrix_scan")
          => (pc' = "idle" /\ Len(recvd') <= 1 /\ result' = 1)]_vars
    /\ [][(pc \in ReadWaits /\ pc' # pc)
          => (id_rx'[Len(id_rx')] # -1 \/ waited >= READ_WAIT_MS)]_vars
    /\ (pc # "idle") ~> (pc = "idle" /\ last_op = "matrix_scan" /\ result = 1)

\* the keyboard acknowledged F2, sent AB and then nothing: the second
\* read_wait ran into its timeout and the call has returned
C26_Witness ==
    /\ pc = "idle"
    /\ state = "LED_SET"
    /\ id_rx = <<\hFA, \hAB, -1>>
    /\ sent = <<\hF5, \hF2, \hF4>>
    /\ result = 1

---------------------------------------------------------------------------
(* The cell of F7. *)

\* the step sets, resp. clears, the cell of F7
F7Set == ~IsOn(matrix, F7) /\ IsOn(matrix', F7)
F7Cleared == IsOn(matrix, F7) /\ ~IsOn(matrix', F7)

\* the step cleared the whole matrix: clear_keyboard() in the decoder or
\* matrix_clear() in case INIT of matrix_scan
MatrixCleared == cleared' > 0 \/ state' = "WAIT_STARTUP"

(* C27 as stated: the cell of F7 is set only by the code 83 read in        *)
(* decoder state INIT and cleared only by 83 read after F0 or by a clear   *)
(* of the matrix.                                                          *)
C27_F7Cell_Orig ==
    [][/\ F7Set => (Decoded /\ cs2_state = "INIT" /\ code' = \h83)
       /\ F7Cleared => \/ Decoded /\ cs2_state = "F0" /\ code' = \h83
                       \/ MatrixCleared]_vars

(* C27: the cell of F7 is set only by the code 83 read in decoder state    *)
(* INIT or by the code 03 read after E0 (03 | 80 = 83), and cleared only   *)
(* by 83 read after F0, by 03 read after E0 F0, or by a clear of the       *)
(* matrix.                                                                 *)
C27_F7Cell ==
    [][/\ F7Set => /\ Decoded
                   /\ \/ cs2_state = "INIT" /\ code' = \h83
                      \/ cs2_state = "E0" /\ code' = \h03
       /\ F7Cleared => \/ Decoded /\ cs2_state = "F0" /\ code' = \h83
                       \/ Decoded /\ cs2_state = "E0_F0" /\ code' = \h03
                       \/ MatrixCleared]_vars

\* E0 03 was read with no key held: the cell of F7 is the one cell set
C27_Witness ==
    /\ last_op = "matrix_scan"
    /\ code = \h03
    /\ cs2_state = "INIT"
    /\ matrix = MatrixOf({F7})

---------------------------------------------------------------------------
(* C28: the matrix is non-zero only in LOOP with an AT keyboard: in every  *)
(* reachable state in which a cell of the matrix is set, the lifecycle     *)
(* state is LOOP and keyboard_kind is PC_AT.                               *)
C28_MatrixOnlyInLoopAT ==
    matrix # EmptyMatrix => (state = "LOOP" /\ keyboard_kind = "PC_AT")

\* a key of an AT keyboard is held in LOOP
C28_Witness ==
    /\ matrix # EmptyMatrix
    /\ state = "LOOP"
    /\ keyboard_kind = "PC_AT"
    /\ last_op = "matrix_scan"

---------------------------------------------------------------------------
(* C29: the cell of Pause is set when a process_cs2 call returns only if   *)
(* that call read 77 in state E1_14_77_E1_F0_14_F0 or 7E in state          *)
(* E0_7E_E0_F0, the last code of Pause resp. of Control-Pause; E0 7E in    *)
(* particular does not set it.                                             *)
C29_PauseOnlyByLastCode ==
    [][(last_op' = "matrix_scan" /\ IsOn(matrix', PAUSE))
       => (/\ Decoded
           /\ \/ cs2_state = "E1_14_77_E1_F0_14_F0" /\ code' = \h77
              \/ cs2_state = "E0_7E_E0_F0" /\ code' = \h7E)]_vars

\* the last code of Control-Pause was read: Pause is set, alone on the matrix
C29_Witness ==
    /\ last_op = "matrix_scan"
    /\ code = \h7E
    /\ cs2_state = "INIT"
    /\ matrix = MatrixOf({PAUSE})

---------------------------------------------------------------------------
(* C30: the decoder cannot stay in a prefix state: the number of codes     *)
(* consumed since the decoder was last in INIT is the depth of its state   *)
(* (every code either takes the decoder to INIT or one state deeper along  *)
(* a sequence) and is below 8, the length of the longest sequence; hence   *)
(* from any decoder state, whatever codes follow, the decoder is in INIT   *)
(* again after at most 8 of them.                                          *)
C30_BackInInitWithin8 ==
    /\ run = Depth(cs2_state)
    /\ run < 8

\* seven codes of Pause have been consumed, the decoder waits for the eighth
C30_Witness ==
    /\ last_op = "matrix_scan"
    /\ nscan = 1
    /\ code = \hF0
    /\ cs2_state = "E1_14_77_E1_F0_14_F0"
    /\ run = 7

---------------------------------------------------------------------------
(* Completion of the identification. *)

\* SpecWait with matrix_scan called again and again and the timer advancing
\* in WAIT_STARTUP as well
SpecLive ==
    /\ SpecWait
    /\ WF_vars(ScanWait)
    /\ WF_vars(ReadIdEnter)
    /\ WF_vars(TimerTick)

\* the transport reports a receive error
RecvErrorReported == last_op' = "ibmpc_error" /\ is_recv_error(ibmpc_error')

(* C31: identification always completes.  With matrix_scan called again    *)
(* and again and the timer advancing, the lifecycle reaches LOOP from      *)
(* every state it can be in, also after a receive error has sent it from   *)
(* LOOP to a new pass; and if from some point on no receive error is       *)
(* reported, the lifecycle from some point on stays in LOOP.               *)
C31_IdentificationCompletes ==
    /\ (state # "LOOP") ~> (state = "LOOP")
    /\ (<>[][~RecvErrorReported]_vars) => <>[](state = "LOOP")

\* a receive error in LOOP was followed by a whole new pass: the keyboard
\* is identified again and the lifecycle is back in LOOP
C31_Witness ==
    /\ state = "LOOP"
    /\ last_op = "matrix_scan"
    /\ is_recv_error(err_seen)
    /\ id_rx = <<\hFA, \hAB, \h83>>
    /\ keyboard_kind = "PC_AT"

====
